---------------------------- MODULE Spec2Model ----------------------------
(***************************************************************************)
(* A model of the OKX grid-trading robot (src/src/main.py, okx_api.py,     *)
(* utils.py).                                                              *)
(*                                                                         *)
(* Numbers.  The program computes with Python floats.  The model computes  *)
(* with exact rationals <<n, d>> (d > 0, lowest terms); one unit is one    *)
(* price tick of 0.0001, so round(x, 4) is rounding to a whole number of   *)
(* units.  Float representation error is not modelled.                     *)
(***************************************************************************)
EXTENDS Integers, Sequences, FiniteSets, TLC

VARIABLES
    \* ---- request_retry wrapper run on its own (SpecRetry) ----
    retry_times,    \* decorator argument retry_times
    retry_delay,    \* decorator argument retry_delay (seconds)
    failures,       \* the wrapped function raises on its first `failures` calls
    retry_i,        \* loop variable i of wrapper
    calls,          \* calls of the wrapped function so far
    sleeps,         \* time.sleep calls so far
    slept,          \* seconds slept so far
    outcome,        \* "running" | "returned" | "raised"
    retval,         \* value returned by wrapper
    \* ---- calculate_atr applied to a candle list (SpecAtr) ----
    atr_candles,    \* argument candles
    atr_period,     \* argument period
    atr_result,     \* [err, val]: err is "pending" before the call, then calculate_atr's result
    \* ---- one call of start_strategy(instId), step by step (SpecStart) ----
    start_pc,       \* "fetch" | "indicators" | "grid" | "place" | "save" | "done" | "failed"
    start_err,      \* the exception caught by start_strategy's except clause, or "none"
    fetch_i,        \* loop variable i of the request_retry wrapper around fetch_candles
    start_sleeps,   \* time.sleep calls made during this start_strategy call
    indicator_calls,\* how many times the indicator block (ATR, RSI, MACD, trend) was run
    candles,        \* local candles
    local,          \* the other locals of start_strategy
    exchange_orders,\* orders the exchange has received from place_grid_orders
    saved_state,    \* coin_states[instId] of the state file
    \* ---- the running service: API handlers and Timer threads (Spec) ----
    GLOBAL_STATE,   \* is_running, current_coin, funds_distribution and the three timer slots
    orphan_timers,  \* per task: started Timers still waiting that no slot refers to any more
    thr,            \* per thread: the task it runs, where it is, and its locals
    strategy_file,  \* the JSON state file: coin_states and current_coin
    exchange_open,  \* per instrument: ids of the orders open at the exchange
    next_ord,       \* the next order id the exchange hands out
    api_resp,       \* outcome of the latest API request: "none" | "pending" | "200" | "400"
    risk_state,     \* RiskState of the risk governor (spec.md 3 and 4.3)
    \* ---- place_grid_orders and cancel_orders batch by batch (SpecOrders) ----
    ord_pc,         \* where start_strategy / stop_strategy is
    ord_levels,     \* [buy, sell]: the lists given to place_grid_orders
    ord_try,        \* loop variable i of the request_retry wrapper in progress
    ord_i,          \* loop variable i of the batch loop in progress
    ord_ids,        \* place_grid_orders' local order_ids
    ord_posts,      \* every requests.post so far: [path, batch, ok]
    ord_book,       \* the exchange's orders: [ordId, order, cancel_sent]
    ord_saved,      \* coin_states[instId]["order_ids"] of the state file
    ord_sleeps,     \* time.sleep calls so far
    \* ---- one call of a decorated okx_api function with an env argument (SpecEnv) ----
    env_fn,         \* the function called
    env_arg,        \* its argument env
    env_try,        \* loop variable i of the request_retry wrapper
    env_calls,      \* calls of the wrapped function so far
    env_slept,      \* seconds slept so far
    env_outcome,    \* "running" | "returned" | "raised"
    \* ---- okx_trade_tool.get_single_timeframe_signal on growing prefixes (SpecSignal) ----
    sig_candles,    \* a candle list
    sig_n,          \* how many of its candles the latest call was given
    sig_out,        \* what the latest call returned
    \* ---- okx_trade_tool.calculate_macd applied to a close series (SpecMacd) ----
    macd_closes,    \* argument close_prices
    macd_periods,   \* arguments fastperiod, slowperiod, signalperiod
    macd_out,       \* [state, lines]: state "pending" before the call, then the lines returned
    \* ---- okx_trade_tool.analyze_multi_timeframe (SpecResonance) ----
    res_pc,         \* "loop" | "judge" | "main" | "done"
    res_replies,    \* what the exchange answered to each fetch_okx_candles so far
    res_signals,    \* dict timeframe_signals
    res_out,        \* the dict returned: multiTimeframeSignal, signal, lastPrice
    \* ---- okx_api.fetch_candles and okx_trade_tool.fetch_okx_candles (SpecCandles) ----
    cnd_fn,         \* which of the two functions is called
    cnd_try,        \* failed attempts of the request_retry wrapper so far
    cnd_rows,       \* data["data"] of the response that was formatted
    cnd_out,        \* [state, candles]: "running" | "returned" | "raised"
    \* ---- main.adjust_grid_by_factors on list objects (SpecAdjust) ----
    adj_pc,         \* "copy" | "rsi" | "macd" | "trend" | "returned" | "raised"
    adj_heap,       \* the list objects: reference |-> values
    adj_args,       \* arguments: references buy_levels, sell_levels; rsi, macd, trend
    adj_given,      \* the values of the two argument lists when the call began
    adj_local,      \* locals: references adjusted_buy, adjusted_sell
    adj_ret,        \* the references returned
    \* ---- the state file under concurrent writers (SpecFile) ----
    pf_file,        \* what the file at DATA_PATH holds (a parsed JSON document)
    pf_given,       \* what it held before the calls began
    pf_call,        \* per thread: the persistence call it makes
    pf_pc,          \* per thread: "open" | "loaded" | "done"
    pf_data,        \* per thread: its local data, the document json.load returned
    \* ---- main.select_best_coin, one call (SpecSelect) ----
    sel_pc,         \* "loop" | "returned"
    sel_seen,       \* what the requests and indicators gave for the coins tried so far
    sel_best_coin,      \* local best_coin
    sel_best_score,     \* local best_score
    sel_ret,        \* the value returned
    \* ---- okx_trade_tool.backtest_strategy, the loop over the candles (SpecBacktest) ----
    bt_pc,          \* "loop" | "returned"
    bt_candles,     \* backtest_candles
    bt_i,           \* loop variable i
    bt_local,       \* locals capital, position, entry_price, win_count, total_trades
    bt_trades       \* local trades

retryVars == <<retry_times, retry_delay, failures, retry_i, calls, sleeps, slept,
               outcome, retval>>
atrVars == <<atr_candles, atr_period, atr_result>>
startVars == <<start_pc, start_err, fetch_i, start_sleeps, indicator_calls, candles,
               local, exchange_orders, saved_state>>
sysVars == <<GLOBAL_STATE, orphan_timers, thr, strategy_file, exchange_open, next_ord,
             api_resp, risk_state>>
ordVars == <<ord_pc, ord_levels, ord_try, ord_i, ord_ids, ord_posts, ord_book, ord_saved,
             ord_sleeps>>
envVars == <<env_fn, env_arg, env_try, env_calls, env_slept, env_outcome>>
sigVars == <<sig_candles, sig_n, sig_out>>
macdVars == <<macd_closes, macd_periods, macd_out>>
resVars == <<res_pc, res_replies, res_signals, res_out>>
cndVars == <<cnd_fn, cnd_try, cnd_rows, cnd_out>>
adjVars == <<adj_pc, adj_heap, adj_args, adj_given, adj_local, adj_ret>>
pfVars == <<pf_file, pf_given, pf_call, pf_pc, pf_data>>
selVars == <<sel_pc, sel_seen, sel_best_coin, sel_best_score, sel_ret>>
btVars == <<bt_pc, bt_candles, bt_i, bt_local, bt_trades>>

\* the functions that are run on their own
unitVars == <<ordVars, envVars, sigVars, macdVars, resVars, cndVars, adjVars,
             pfVars, selVars, btVars>>
vars == <<retryVars, atrVars, startVars, sysVars, unitVars>>
NotOrd == <<retryVars, atrVars, startVars, sysVars, envVars, sigVars,
            macdVars, resVars, cndVars, adjVars, pfVars, selVars, btVars>>
NotEnv == <<retryVars, atrVars, startVars, sysVars, ordVars, sigVars,
            macdVars, resVars, cndVars, adjVars, pfVars, selVars, btVars>>
NotSig == <<retryVars, atrVars, startVars, sysVars, ordVars, envVars,
            macdVars, resVars, cndVars, adjVars, pfVars, selVars, btVars>>
NotMacd == <<retryVars, atrVars, startVars, sysVars, ordVars, envVars,
             sigVars, resVars, cndVars, adjVars, pfVars, selVars, btVars>>
NotRes == <<retryVars, atrVars, startVars, sysVars, ordVars, envVars,
            sigVars, macdVars, cndVars, adjVars, pfVars, selVars, btVars>>
NotCnd == <<retryVars, atrVars, startVars, sysVars, ordVars, envVars,
            sigVars, macdVars, resVars, adjVars, pfVars, selVars, btVars>>
NotAdj == <<retryVars, atrVars, startVars, sysVars, ordVars, envVars,
            sigVars, macdVars, resVars, cndVars, pfVars, selVars, btVars>>
NotPf == <<retryVars, atrVars, startVars, sysVars, ordVars, envVars, sigVars,
           macdVars, resVars, cndVars, adjVars, selVars, btVars>>
NotSel == <<retryVars, atrVars, startVars, sysVars, ordVars, envVars,
            sigVars, macdVars, resVars, cndVars, adjVars, pfVars, btVars>>
NotBt == <<retryVars, atrVars, startVars, sysVars, ordVars, envVars, sigVars,
           macdVars, resVars, cndVars, adjVars, pfVars, selVars>>

----------------------------------------------------------------------------
(* Bounds of the model *)
MaxRetryTimes == 4
MaxRetryDelay == 3
MaxAtrLen == 3
MaxAtrPeriod == 3
MaxGridLevels == 3
MaxThreads == 2     \* Timer callbacks running at once
MaxChains == 1      \* live Timers per task when POST /start_strategy is accepted
MaxOrders == 2      \* order ids the exchange hands out
MaxTradeCount == 2  \* closed trades counted in RiskState
MaxPlaceLevels == 21 \* buy levels, and sell levels, given to place_grid_orders
MaxCandles == 32    \* candles given to get_single_timeframe_signal
MaxMacdPeriod == 3  \* fastperiod, slowperiod, signalperiod given to calculate_macd
MaxMacdLen == 5     \* closes given to calculate_macd

----------------------------------------------------------------------------
(* Exact rational arithmetic standing for Python float arithmetic *)

Abs(x) == IF x < 0 THEN -x ELSE x

RECURSIVE Gcd(_, _)
Gcd(a, b) == IF b = 0 THEN a ELSE Gcd(b, a % b)

\* the rational n/d in lowest terms with a positive denominator
Rat(n, d) ==
    LET s == IF d < 0 THEN -1 ELSE 1
        g == Gcd(Abs(n), Abs(d))
    IN  <<(s * n) \div g, (s * d) \div g>>

R(n) == <<n, 1>>
RAdd(x, y) == Rat(x[1] * y[2] + y[1] * x[2], x[2] * y[2])
RSub(x, y) == Rat(x[1] * y[2] - y[1] * x[2], x[2] * y[2])
RMul(x, y) == Rat(x[1] * y[1], x[2] * y[2])
RDiv(x, y) == Rat(x[1] * y[2], x[2] * y[1])
RLt(x, y) == x[1] * y[2] < y[1] * x[2]
RLe(x, y) == x[1] * y[2] <= y[1] * x[2]
RAbs(x) == <<Abs(x[1]), x[2]>>
RMax(x, y) == IF RLt(x, y) THEN y ELSE x
RMin(x, y) == IF RLt(y, x) THEN y ELSE x
RIsInt(x) == x[2] = 1

\* Python round(x, 0) on an exact value: nearest integer, ties to the even one
RoundHalfEven(x) ==
    LET fl == x[1] \div x[2]             \* floor (\div rounds down)
        r2 == 2 * (x[1] - fl * x[2])     \* twice the fractional part, times x[2]
    IN  IF r2 < x[2] THEN fl
        ELSE IF r2 > x[2] THEN fl + 1
        ELSE IF fl % 2 = 0 THEN fl ELSE fl + 1

\* round(x, 4) with one unit = 0.0001
round4(x) == R(RoundHalfEven(x))

RECURSIVE RSum(_)
RSum(s) == IF s = <<>> THEN R(0) ELSE RAdd(Head(s), RSum(Tail(s)))

\* Python s[-n:] for n >= 1
LastN(s, n) == IF Len(s) <= n THEN s ELSE SubSeq(s, Len(s) - n + 1, Len(s))

----------------------------------------------------------------------------
(* utils.request_retry *)

\* the except-branch without its time.sleep
RetryCallRaisesNoSleep ==
    /\ outcome = "running"
    /\ retry_i < retry_times
    /\ calls + 1 <= failures
    /\ calls' = calls + 1
    /\ retry_i' = retry_i + 1
    /\ UNCHANGED <<retry_times, retry_delay, failures, sleeps, slept, outcome, retval>>

\* except-branch of wrapper: log, then time.sleep(retry_delay)
RetryCallRaises ==
    /\ outcome = "running"
    /\ retry_i < retry_times
    /\ calls + 1 <= failures
    /\ calls' = calls + 1
    /\ sleeps' = sleeps + 1
    /\ slept' = slept + retry_delay
    /\ retry_i' = retry_i + 1
    /\ UNCHANGED <<retry_times, retry_delay, failures, outcome, retval>>

\* try-branch of wrapper: return func(*args, **kwargs)
RetryCallReturns ==
    /\ outcome = "running"
    /\ retry_i < retry_times
    /\ calls + 1 > failures
    /\ calls' = calls + 1
    /\ outcome' = "returned"
    /\ retval' = "v"
    /\ UNCHANGED <<retry_times, retry_delay, failures, retry_i, sleeps, slept>>

\* the loop ran out: raise Exception("API请求重试N次失败")
RetryExhausted ==
    /\ outcome = "running"
    /\ retry_i >= retry_times
    /\ outcome' = "raised"
    /\ UNCHANGED <<retry_times, retry_delay, failures, retry_i, calls, sleeps, slept, retval>>

InitRetry ==
    /\ retry_times \in 0..MaxRetryTimes
    /\ retry_delay \in 1..MaxRetryDelay
    /\ failures \in 0..(MaxRetryTimes + 1)
    /\ retry_i = 0
    /\ calls = 0
    /\ sleeps = 0
    /\ slept = 0
    /\ outcome = "running"
    /\ retval = "none"

----------------------------------------------------------------------------
(* utils.calculate_atr *)

Candle(h, l, c) == [high |-> h, low |-> l, close |-> c]

\* true range of candle i (0-based, i >= 1) against the previous close
TrueRange(klines, i) ==
    LET current == klines[i + 1]
        prev == klines[i]
    IN  RMax(RSub(current.high, current.low),
             RMax(RAbs(RSub(current.high, prev.close)),
                  RAbs(RSub(current.low, prev.close))))

tr_list(klines) == [k \in 1..(Len(klines) - 1) |-> TrueRange(klines, k)]

\* the length test of calculate_atr
AtrGuard(klines, period) == Len(klines) < period

calculate_atr(klines, period) ==
    IF AtrGuard(klines, period)
    THEN [err |-> "insufficient", val |-> R(0)]
    ELSE [err |-> "none",
          val |-> round4(RDiv(RSum(LastN(tr_list(klines), period)), R(period)))]

\* candle shapes the exchange may report, in ticks
AtrCandleSet ==
    { Candle(R(h), R(l), R(c)) : h \in {10, 12}, l \in {8, 10}, c \in {10} }
    \cup { Candle(R(13), R(11), R(12)), Candle(<<21, 2>>, <<19, 2>>, R(10)) }

RECURSIVE SeqsUpTo(_, _)
SeqsUpTo(S, n) ==
    IF n = 0 THEN {<<>>}
    ELSE LET shorter == SeqsUpTo(S, n - 1)
         IN  shorter \cup { Append(s, x) : s \in { q \in shorter : Len(q) = n - 1 }, x \in S }

InitAtr ==
    /\ atr_candles \in SeqsUpTo(AtrCandleSet, MaxAtrLen)
    /\ atr_period \in 1..MaxAtrPeriod
    /\ atr_result = [err |-> "pending", val |-> R(0)]

AtrCall ==
    /\ atr_result.err = "pending"
    /\ atr_result' = calculate_atr(atr_candles, atr_period)
    /\ UNCHANGED <<atr_candles, atr_period>>

----------------------------------------------------------------------------
(* utils.calculate_rsi, calculate_macd, judge_trend *)

closes_of(klines) == [k \in 1..Len(klines) |-> klines[k].close]

\* np.diff(closes)
deltas_of(closes) == [k \in 1..(Len(closes) - 1) |-> RSub(closes[k + 1], closes[k])]

\* deltas[deltas > 0]
RECURSIVE GainsOf(_)
GainsOf(d) ==
    IF d = <<>> THEN <<>>
    ELSE IF RLt(R(0), Head(d)) THEN <<Head(d)>> \o GainsOf(Tail(d))
    ELSE GainsOf(Tail(d))

\* -deltas[deltas < 0]
RECURSIVE LossesOf(_)
LossesOf(d) ==
    IF d = <<>> THEN <<>>
    ELSE IF RLt(Head(d), R(0)) THEN <<RSub(R(0), Head(d))>> \o LossesOf(Tail(d))
    ELSE LossesOf(Tail(d))

\* Python s[:n]
FirstN(s, n) == IF Len(s) <= n THEN s ELSE SubSeq(s, 1, n)

RMean(s) == RDiv(RSum(s), R(Len(s)))

\* round(x, 2) of a value in natural units
round2(x) == Rat(RoundHalfEven(RMul(x, R(100))), 100)

calculate_rsi(klines, period) ==
    IF Len(klines) < period + 1
    THEN [err |-> "insufficient", val |-> R(0)]
    ELSE
      LET deltas == deltas_of(closes_of(klines))
          gains == GainsOf(deltas)
          losses == LossesOf(deltas)
          avg_gain == IF Len(gains) > 0 THEN RMean(FirstN(gains, period)) ELSE R(0)
          avg_loss == IF Len(losses) > 0 THEN RMean(FirstN(losses, period)) ELSE R(0)
      IN  IF avg_loss = R(0)
          THEN [err |-> "none", val |-> R(100)]
          ELSE LET rs == RDiv(avg_gain, avg_loss)
               IN  [err |-> "none",
                    val |-> round2(RSub(R(100), RDiv(R(100), RAdd(R(1), rs))))]

\* ema_fast / ema_slow of calculate_macd, entries 0..n-1: zero before index
\* slow-1, seeded there with the mean of the first `slow` closes (both of them)
RECURSIVE MacdEma(_, _, _, _)
MacdEma(closes, period, slow, n) ==
    IF n = 0 THEN <<>>
    ELSE LET before == MacdEma(closes, period, slow, n - 1)
             i == n - 1
         IN  Append(before,
                 IF i < slow - 1 THEN R(0)
                 ELSE IF i = slow - 1 THEN RMean(FirstN(closes, slow))
                 ELSE RDiv(RAdd(RMul(closes[i + 1], R(2)), RMul(before[i], R(period - 1))),
                           R(period + 1)))

\* dea, entries 0..n-1: zero before index slow+signal-1, seeded there with
\* mean(dif[slow-1:slow+signal-1])
RECURSIVE MacdDea(_, _, _, _)
MacdDea(dif, slow, signal, n) ==
    IF n = 0 THEN <<>>
    ELSE LET before == MacdDea(dif, slow, signal, n - 1)
             i == n - 1
         IN  Append(before,
                 IF i < slow + signal - 1 THEN R(0)
                 ELSE IF i = slow + signal - 1
                 THEN RMean(SubSeq(dif, slow, slow + signal - 1))
                 ELSE RDiv(RAdd(RMul(dif[i + 1], R(2)), RMul(before[i], R(signal - 1))),
                           R(signal + 1)))

NoMacd == [dif |-> R(0), dea |-> R(0), bar |-> R(0),
           golden_cross |-> FALSE, death_cross |-> FALSE]

calculate_macd(klines, fast, slow, signal) ==
    IF Len(klines) < slow + signal
    THEN [err |-> "insufficient", val |-> NoMacd]
    ELSE
      LET closes == closes_of(klines)
          n == Len(closes)
          ema_fast == MacdEma(closes, fast, slow, n)
          ema_slow == MacdEma(closes, slow, slow, n)
          dif == [k \in 1..n |-> RSub(ema_fast[k], ema_slow[k])]
          dea == MacdDea(dif, slow, signal, n)
          dif1 == dif[n]
          dif2 == dif[n - 1]
          dea1 == dea[n]
          dea2 == dea[n - 1]
      IN  [err |-> "none",
           val |-> [dif |-> round4(dif1),
                    dea |-> round4(dea1),
                    bar |-> round4(RSub(dif1, dea1)),
                    golden_cross |-> RLt(dea1, dif1) /\ RLt(dif2, dea2),
                    death_cross |-> RLt(dif1, dea1) /\ RLt(dea2, dif2)]]

\* default value of judge_trend's parameter period
TrendPeriod == 20

judge_trend(klines, period, threshold) ==
    IF Len(klines) < period
    THEN [err |-> "insufficient", val |-> "none"]
    ELSE
      LET closes == closes_of(klines)
          ema20 == RMean(LastN(closes, period))
          price_diff == RDiv(RSub(closes[Len(closes)], ema20), ema20)
      IN  [err |-> "none",
           val |-> IF RLt(threshold, price_diff) THEN "up"
                   ELSE IF RLt(price_diff, RSub(R(0), threshold)) THEN "down"
                   ELSE "shock"]

----------------------------------------------------------------------------
(* main.adjust_grid_by_factors *)

\* the loop  for i in range(1, len(levels)): levels[i] = levels[i-1] + (levels[i] - levels[i-1]) * 0.8
\* run in place, so levels[i-1] is the value already adjusted
RECURSIVE ShrinkSpacing(_)
ShrinkSpacing(levels) ==
    IF Len(levels) <= 1 THEN levels
    ELSE LET front == ShrinkSpacing(SubSeq(levels, 1, Len(levels) - 1))
             prev == front[Len(front)]
             cur == levels[Len(levels)]
         IN  Append(front, RAdd(prev, RMul(RSub(cur, prev), <<4, 5>>)))

\* adjusted_buy.append(adjusted_buy[-1] - (adjusted_buy[1] - adjusted_buy[0]))
GoldenCrossLevel(adjusted_buy) ==
    RSub(adjusted_buy[Len(adjusted_buy)], RSub(adjusted_buy[2], adjusted_buy[1]))

\* adjusted_sell.append(adjusted_sell[-1] + (adjusted_sell[1] - adjusted_sell[0]))
DeathCrossLevel(adjusted_sell) ==
    RAdd(adjusted_sell[Len(adjusted_sell)], RSub(adjusted_sell[2], adjusted_sell[1]))

\* the RSI and MACD adjustments alone, without the trend rule of lines 171-175
adjust_grid_without_trend(buy_levels, sell_levels, rsi, macd, trend) ==
    LET sell1 == IF RLt(R(70), rsi) THEN ShrinkSpacing(sell_levels) ELSE sell_levels
        buy1 == IF ~RLt(R(70), rsi) /\ RLt(rsi, R(30))
                THEN ShrinkSpacing(buy_levels) ELSE buy_levels
    IN  IF \/ macd.golden_cross /\ Len(buy1) < 2
           \/ ~macd.golden_cross /\ macd.death_cross /\ Len(sell1) < 2
        THEN [err |-> "index", buy |-> <<>>, sell |-> <<>>]
        ELSE [err |-> "none",
              buy |-> IF macd.golden_cross
                      THEN Append(buy1, GoldenCrossLevel(buy1)) ELSE buy1,
              sell |-> IF ~macd.golden_cross /\ macd.death_cross
                       THEN Append(sell1, DeathCrossLevel(sell1)) ELSE sell1]

adjust_grid_by_factors(buy_levels, sell_levels, rsi, macd, trend) ==
    LET sell1 == IF RLt(R(70), rsi) THEN ShrinkSpacing(sell_levels) ELSE sell_levels
        buy1 == IF ~RLt(R(70), rsi) /\ RLt(rsi, R(30))
                THEN ShrinkSpacing(buy_levels) ELSE buy_levels
    IN  IF \/ macd.golden_cross /\ Len(buy1) < 2
           \/ ~macd.golden_cross /\ macd.death_cross /\ Len(sell1) < 2
        THEN [err |-> "index", buy |-> <<>>, sell |-> <<>>]     \* IndexError
        ELSE
          LET buy2 == IF macd.golden_cross
                      THEN Append(buy1, GoldenCrossLevel(buy1)) ELSE buy1
              sell2 == IF ~macd.golden_cross /\ macd.death_cross
                       THEN Append(sell1, DeathCrossLevel(sell1)) ELSE sell1
          IN  [err |-> "none",
               buy |-> IF trend = "down" THEN <<>> ELSE buy2,
               sell |-> IF trend = "up" THEN <<>> ELSE sell2]

----------------------------------------------------------------------------
(* main.start_strategy, one call, with the configuration it reads *)

\* GLOBAL_STATE["strategy_params"] (config.yaml); grid_levels and atr_multi are
\* drawn where start_strategy reads them
strategy_params ==
    [kline_limit |-> 20, atr_period |-> 2, rsi_period |-> 2,
     macd_fast |-> 2, macd_slow |-> 3, macd_signal |-> 2,
     trend_threshold |-> <<1, 50>>]

AtrMultiChoices == {<<1, 2>>, <<6, 5>>}

\* GLOBAL_STATE["risk_params"]; volumes in units of 0.0001 contract
risk_params ==
    [risk_ratio |-> <<1, 10>>,
     min_order_volume |-> R(100), max_order_volume |-> R(1000),
     stop_loss_rate |-> <<1, 10>>, take_profit_rate |-> <<1, 5>>,
     leverage_range |-> [low_vol |-> <<R(5), <<51, 10>>>>,
                         mid_vol |-> <<R(3), <<31, 10>>>>,
                         high_vol |-> <<R(1), <<11, 10>>>>]]

\* GLOBAL_STATE["funds_distribution"][instId]: a KeyError when instId is not a
\* configured coin, else the funds in units of 1e-8 USDT (so that
\* funds / (ticks * leverage) is a volume in units of 0.0001 contract)
FundsChoices == {"KeyError", R(0), R(120000), R(10000000)}

\* retry_times of the @request_retry decorators in okx_api.py
ApiRetryTimes == 3

\* candle series the exchange may return: `len` candles, flat at 100 ticks but
\* for the last three closes; shape "wick" gives the last three candles a high
\* and low one tick off the close, shape "half" moves every price up by half a tick
BaseClose == R(100)
TailCloses == {R(90), R(99), R(100), R(101), R(110)}
SeriesLengths == {1, 2, 4, 19, 20}
SeriesShapes == {"plain", "wick", "half"}

ShapedCandle(c, shape, inTail) ==
    LET cc == IF shape = "half" THEN RAdd(c, <<1, 2>>) ELSE c
        w == IF shape = "wick" /\ inTail THEN R(1) ELSE R(0)
    IN  Candle(RAdd(cc, w), RSub(cc, w), cc)

CandleSeries(len, tail, shape) ==
    [k \in 1..len |->
        IF k > len - 3
        THEN ShapedCandle(tail[3 - (len - k)], shape, TRUE)
        ELSE ShapedCandle(BaseClose, shape, FALSE)]

CandleInputs ==
    { CandleSeries(len, tail, shape) :
        len \in SeriesLengths, tail \in TailCloses \X TailCloses \X TailCloses,
        shape \in SeriesShapes }

\* round(np.random.uniform(lo, hi), 1): any multiple of 0.1 the draw can round to
LeverageDraws(range) ==
    { Rat(k, 10) : k \in RoundHalfEven(RMul(range[1], R(10)))..RoundHalfEven(RMul(range[2], R(10))) }

\* ATR thresholds 20 and 50 are in price units (1 = 10000 ticks)
calculate_dynamic_leverage(atr_) ==
    IF RLt(atr_, R(20 * 10000)) THEN LeverageDraws(risk_params.leverage_range.low_vol)
    ELSE IF RLt(atr_, R(50 * 10000)) THEN LeverageDraws(risk_params.leverage_range.mid_vol)
    ELSE LeverageDraws(risk_params.leverage_range.high_vol)

\* the same with range(grid_levels) in place of range(1, grid_levels+1)
BuyLevelFromZero(current_price, grid_spacing, i) ==
    round4(RSub(current_price, RMul(grid_spacing, R(i - 1))))

\* round(current_price - grid_spacing * i, 4)
buy_level(current_price, grid_spacing, i) ==
    round4(RSub(current_price, RMul(grid_spacing, R(i))))

\* round(current_price + grid_spacing * i, 4)
sell_level(current_price, grid_spacing, i) ==
    round4(RAdd(current_price, RMul(grid_spacing, R(i))))

\* the clamp without its lower limit
ClampVolumeNoFloor(v) == RMin(v, risk_params.max_order_volume)

\* max(min(order_volume, max_order_volume), min_order_volume)
ClampVolume(v) ==
    RMax(RMin(v, risk_params.max_order_volume), risk_params.min_order_volume)

\* orders list of place_grid_orders: all buy levels, then all sell levels
GridOrders(buys, sells, volume, leverage) ==
    [k \in 1..Len(buys) |-> [side |-> "buy", px |-> buys[k], sz |-> volume, lever |-> leverage]]
    \o [k \in 1..Len(sells) |-> [side |-> "sell", px |-> sells[k], sz |-> volume, lever |-> leverage]]

NoLocals ==
    [atr |-> R(0), rsi |-> R(0), macd |-> NoMacd, trend |-> "none",
     current_price |-> R(0), leverage |-> R(0), grid_spacing |-> R(0),
     grid_levels |-> 0, buy_levels |-> <<>>, sell_levels |-> <<>>,
     adjusted_buy |-> <<>>, adjusted_sell |-> <<>>,
     coin_funds |-> R(0), order_volume |-> R(0), order_ids |-> <<>>]

\* coin_states.get(instId, {}) of a coin that was never saved, read with the defaults
\* the code uses: order_ids [], profit 0.0, loss 0.0
NoState ==
    [is_running |-> FALSE, order_ids |-> <<>>, profit |-> R(0), loss |-> R(0),
     saved |-> FALSE]

InitStart ==
    /\ start_pc = "fetch"
    /\ start_err = "none"
    /\ fetch_i = 0
    /\ start_sleeps = 0
    /\ indicator_calls = 0
    /\ candles = <<>>
    /\ local = NoLocals
    /\ exchange_orders = <<>>
    /\ saved_state = NoState

\* fetch_candles raises inside its retry wrapper: sleep and go round the loop
start_fetch_raises ==
    /\ start_pc = "fetch"
    /\ fetch_i < ApiRetryTimes
    /\ fetch_i' = fetch_i + 1
    /\ start_sleeps' = start_sleeps + 1
    /\ UNCHANGED <<start_pc, start_err, indicator_calls, candles, local,
                   exchange_orders, saved_state>>

\* the wrapper's loop ran out: the exception reaches start_strategy's except clause
start_fetch_exhausted ==
    /\ start_pc = "fetch"
    /\ fetch_i >= ApiRetryTimes
    /\ start_pc' = "failed"
    /\ start_err' = "api"
    /\ UNCHANGED <<fetch_i, start_sleeps, indicator_calls, candles, local,
                   exchange_orders, saved_state>>

\* fetch_candles returns the candles
start_fetch_returns ==
    /\ start_pc = "fetch"
    /\ fetch_i < ApiRetryTimes
    /\ \E series \in CandleInputs : candles' = series
    /\ start_pc' = "indicators"
    /\ UNCHANGED <<start_err, fetch_i, start_sleeps, indicator_calls, local,
                   exchange_orders, saved_state>>

\* the indicator block as it would run under @request_retry: every attempt
\* raises again and sleeps
start_indicators_retrying ==
    /\ start_pc = "indicators"
    /\ LET a == calculate_atr(candles, strategy_params.atr_period)
           r == calculate_rsi(candles, strategy_params.rsi_period)
           m == calculate_macd(candles, strategy_params.macd_fast,
                               strategy_params.macd_slow, strategy_params.macd_signal)
           t == judge_trend(candles, TrendPeriod, strategy_params.trend_threshold)
       IN  IF a.err # "none" \/ r.err # "none" \/ m.err # "none" \/ t.err # "none"
           THEN /\ start_pc' = "failed"
                /\ start_err' = "insufficient"
                /\ indicator_calls' = indicator_calls + ApiRetryTimes
                /\ start_sleeps' = start_sleeps + ApiRetryTimes
                /\ local' = local
           ELSE /\ start_pc' = "grid"
                /\ start_err' = start_err
                /\ indicator_calls' = indicator_calls + 1
                /\ start_sleeps' = start_sleeps
                /\ local' = [local EXCEPT !.atr = a.val, !.rsi = r.val, !.macd = m.val,
                                          !.trend = t.val,
                                          !.current_price = candles[Len(candles)].close]
    /\ UNCHANGED <<fetch_i, candles, exchange_orders, saved_state>>

\* lines 316-325: calculate_atr, calculate_rsi, calculate_macd, judge_trend, current_price
start_indicators ==
    /\ start_pc = "indicators"
    /\ indicator_calls' = indicator_calls + 1
    /\ LET a == calculate_atr(candles, strategy_params.atr_period)
           r == calculate_rsi(candles, strategy_params.rsi_period)
           m == calculate_macd(candles, strategy_params.macd_fast,
                               strategy_params.macd_slow, strategy_params.macd_signal)
           t == judge_trend(candles, TrendPeriod, strategy_params.trend_threshold)
       IN  IF a.err # "none" \/ r.err # "none" \/ m.err # "none" \/ t.err # "none"
           THEN /\ start_pc' = "failed"
                /\ start_err' = "insufficient"
                /\ local' = local
           ELSE /\ start_pc' = "grid"
                /\ start_err' = start_err
                /\ local' = [local EXCEPT !.atr = a.val, !.rsi = r.val, !.macd = m.val,
                                          !.trend = t.val,
                                          !.current_price = candles[Len(candles)].close]
    /\ UNCHANGED <<fetch_i, start_sleeps, candles, exchange_orders, saved_state>>

\* lines 327-344: leverage, grid levels, adjust_grid_by_factors, order volume
start_grid ==
    /\ start_pc = "grid"
    /\ \E leverage \in calculate_dynamic_leverage(local.atr),
          atr_multi \in AtrMultiChoices,
          grid_levels \in 1..MaxGridLevels,
          coin_funds \in FundsChoices :
        LET grid_spacing == RMul(local.atr, atr_multi)
            buy_levels == [i \in 1..grid_levels |->
                              buy_level(local.current_price, grid_spacing, i)]
            sell_levels == [i \in 1..grid_levels |->
                               sell_level(local.current_price, grid_spacing, i)]
            adj == adjust_grid_by_factors(buy_levels, sell_levels, local.rsi,
                                          local.macd, local.trend)
            loc1 == [local EXCEPT !.leverage = leverage, !.grid_spacing = grid_spacing,
                                  !.grid_levels = grid_levels,
                                  !.buy_levels = buy_levels, !.sell_levels = sell_levels]
        IN  IF adj.err # "none"
            THEN /\ start_pc' = "failed" /\ start_err' = "index" /\ local' = loc1
            ELSE IF coin_funds = "KeyError"
            THEN /\ start_pc' = "failed" /\ start_err' = "key"
                 /\ local' = [loc1 EXCEPT !.adjusted_buy = adj.buy, !.adjusted_sell = adj.sell]
            ELSE IF RMul(grid_spacing, leverage) = R(0)
            THEN /\ start_pc' = "failed" /\ start_err' = "zerodiv"
                 /\ local' = [loc1 EXCEPT !.adjusted_buy = adj.buy, !.adjusted_sell = adj.sell,
                                          !.coin_funds = coin_funds]
            ELSE /\ start_pc' = "place" /\ start_err' = start_err
                 /\ local' = [loc1 EXCEPT
                        !.adjusted_buy = adj.buy, !.adjusted_sell = adj.sell,
                        !.coin_funds = coin_funds,
                        !.order_volume =
                            round4(ClampVolume(RDiv(RMul(coin_funds, risk_params.risk_ratio),
                                                    RMul(grid_spacing, leverage))))]
    /\ UNCHANGED <<fetch_i, start_sleeps, indicator_calls, candles, exchange_orders,
                   saved_state>>

\* lines 347-352: place_grid_orders returns the order ids
start_place_returns ==
    /\ start_pc = "place"
    /\ LET orders == GridOrders(local.adjusted_buy, local.adjusted_sell,
                                local.order_volume, local.leverage)
       IN  /\ exchange_orders' = exchange_orders \o orders
           /\ local' = [local EXCEPT !.order_ids =
                            [k \in 1..Len(orders) |-> Len(exchange_orders) + k]]
    /\ start_pc' = "save"
    /\ UNCHANGED <<start_err, fetch_i, start_sleeps, indicator_calls, candles, saved_state>>

\* place_grid_orders raises (every attempt of its retry wrapper was refused)
start_place_raises ==
    /\ start_pc = "place"
    /\ start_pc' = "failed"
    /\ start_err' = "api"
    /\ start_sleeps' = start_sleeps + ApiRetryTimes
    /\ UNCHANGED <<fetch_i, indicator_calls, candles, local, exchange_orders, saved_state>>

\* lines 355-368: save_coin_state
start_save ==
    /\ start_pc = "save"
    /\ saved_state' = [is_running |-> TRUE, order_ids |-> local.order_ids,
                        profit |-> R(0), loss |-> R(0), saved |-> TRUE]
    /\ start_pc' = "done"
    /\ UNCHANGED <<start_err, fetch_i, start_sleeps, indicator_calls, candles, local,
                   exchange_orders>>

StartIdle ==
    /\ start_pc = "idle" /\ start_err = "none" /\ fetch_i = 0 /\ start_sleeps = 0
    /\ indicator_calls = 0 /\ candles = <<>> /\ local = NoLocals
    /\ exchange_orders = <<>> /\ saved_state = NoState

----------------------------------------------------------------------------
(* The running service: GLOBAL_STATE, the state file, the exchange, the    *)
(* event-loop thread that serves the API and the threading.Timer threads   *)

\* GLOBAL_STATE["coin_configs"] (config.yaml)
coin_configs ==
    <<[instId |-> "BTC-USDT-SWAP", weight |-> 1],
      [instId |-> "ETH-USDT-SWAP", weight |-> 0]>>

Coins == { coin_configs[k].instId : k \in DOMAIN coin_configs }

\* account_info["total"] at startup
TotalFundsChoices == {R(1000)}

RECURSIVE WeightSum(_)
WeightSum(k) == IF k = 0 THEN 0 ELSE coin_configs[k].weight + WeightSum(k - 1)

calculate_funds_distribution(total_funds) ==
    [c \in Coins |->
        LET coin == CHOOSE k \in DOMAIN coin_configs : coin_configs[k].instId = c
        IN  RMul(total_funds, Rat(coin_configs[coin].weight, WeightSum(Len(coin_configs))))]

\* the three Timer slots of GLOBAL_STATE, each naming the task its Timer runs
Tasks == {"global_check_timer", "coin_monitor_timer", "daily_report_timer"}

\* thread 0 is the event loop serving the API; the others run Timer callbacks
Threads == 0..MaxThreads
TimerThreads == 1..MaxThreads

IdleThread ==
    [task |-> "none", pc |-> "idle", instId |-> "", ret |-> "", best_coin |-> "",
     order_ids |-> <<>>, coins_left |-> <<>>]

\* RiskState of spec.md section 3 and the limits of section 4.3
RiskLimits == [dailyTradeLimit |-> 2, maxConsecutiveLoss |-> 2, maxDailyLoss |-> <<1, 20>>]

\* what a closed trade may have lost, as a fraction of the balance (0: no loss)
TradeLosses == {R(0), <<1, 50>>, <<1, 20>>}

NoRisk == [tradeCountToday |-> 0, consecutiveLossCount |-> 0, dailyLossFraction |-> R(0)]

\* spec.md 4.3: reject on any one breach
RiskBreached(rs) ==
    \/ rs.tradeCountToday >= RiskLimits.dailyTradeLimit
    \/ rs.consecutiveLossCount >= RiskLimits.maxConsecutiveLoss
    \/ RLe(RiskLimits.maxDailyLoss, rs.dailyLossFraction)

\* the state after auto_verify_api (startup): funds distributed, an initial coin
\* selected or not, the state file fresh
Init ==
    /\ \E total_funds \in TotalFundsChoices, initial_coin \in Coins \cup {"None"} :
        /\ GLOBAL_STATE =
             [is_running |-> FALSE,
              current_coin |-> IF initial_coin = "None" THEN "" ELSE initial_coin,
              funds_distribution |-> calculate_funds_distribution(total_funds),
              global_check_timer |-> "None", coin_monitor_timer |-> "None",
              daily_report_timer |-> "None"]
        /\ strategy_file =
             [coin_states |-> [c \in Coins |-> NoState],
              current_coin |-> IF initial_coin = "None" THEN "" ELSE initial_coin]
    /\ orphan_timers = [task \in Tasks |-> 0]
    /\ thr = [t \in Threads |-> IdleThread]
    /\ exchange_open = [c \in Coins |-> {}]
    /\ next_ord = 1
    /\ api_resp = "none"
    /\ risk_state = NoRisk

\* Timers of a task that are waiting to fire, and those whose callback is running
WaitingTimers(task) ==
    orphan_timers[task] + (IF GLOBAL_STATE[task] = "pending" THEN 1 ELSE 0)

RunningTimers(task) == Cardinality({t \in TimerThreads : thr[t].task = task})

\* GLOBAL_STATE[task] = Timer(...); GLOBAL_STATE[task].start(): a Timer the slot
\* referred to keeps waiting
StartTimers(gs, orphans, tasks) ==
    [gs |-> [k \in DOMAIN gs |-> IF k \in tasks THEN "pending" ELSE gs[k]],
     orphans |-> [task \in Tasks |->
                    IF task \in tasks /\ gs[task] = "pending"
                    THEN orphans[task] + 1 ELSE orphans[task]]]

\* the function a thread is in returns to its caller
Return(t) ==
    [thr EXCEPT ![t].pc = thr[t].ret, ![t].ret = "", ![t].instId = "",
                ![t].order_ids = <<>>]

\* the thread calls start_strategy(instId) / stop_strategy(instId) and goes on at ret
Call(t, fn, instId, ret) ==
    [thr EXCEPT ![t].pc = fn, ![t].instId = instId, ![t].ret = ret, ![t].order_ids = <<>>]

\* POST /start_strategy: lines 451-463, up to the call of start_strategy; `best`
\* is what select_best_coin() returns if it is asked
start_strategy_api(instId, best) ==
    /\ thr[0].pc = "idle"
    /\ IF GLOBAL_STATE.is_running
       THEN /\ api_resp' = "400"
            /\ UNCHANGED <<GLOBAL_STATE, thr, strategy_file>>
       ELSE LET target_coin == IF instId # "None" THEN instId
                               ELSE IF GLOBAL_STATE.current_coin # ""
                                    THEN GLOBAL_STATE.current_coin
                                    ELSE best
            IN  IF target_coin = "None"
                THEN /\ api_resp' = "400"
                     /\ UNCHANGED <<GLOBAL_STATE, thr, strategy_file>>
                ELSE /\ \A task \in Tasks :
                            WaitingTimers(task) + RunningTimers(task) < MaxChains
                     /\ GLOBAL_STATE' = [GLOBAL_STATE EXCEPT !.is_running = TRUE,
                                                             !.current_coin = target_coin]
                     /\ strategy_file' = [strategy_file EXCEPT !.current_coin = target_coin]
                     /\ thr' = Call(0, "start_strategy", target_coin, "api_start_timers")
                     /\ api_resp' = "pending"
    /\ UNCHANGED <<orphan_timers, exchange_open, next_ord, risk_state>>

\* lines 465-471: start_strategy has returned; the three Timers are made and started
api_start_timers ==
    /\ thr[0].pc = "api_start_timers"
    /\ LET st == StartTimers(GLOBAL_STATE, orphan_timers, Tasks)
       IN  GLOBAL_STATE' = st.gs /\ orphan_timers' = st.orphans
    /\ thr' = [thr EXCEPT ![0] = IdleThread]
    /\ api_resp' = "200"
    /\ UNCHANGED <<strategy_file, exchange_open, next_ord, risk_state>>

\* POST /stop_strategy: lines 477-489, up to the first call of stop_strategy
stop_strategy_api(instId) ==
    /\ thr[0].pc = "idle"
    /\ IF ~GLOBAL_STATE.is_running
       THEN /\ api_resp' = "400"
            /\ thr' = thr
       ELSE LET target_coin == IF instId # "None" THEN instId
                               ELSE GLOBAL_STATE.current_coin
            IN  /\ api_resp' = "pending"
                /\ thr' = IF target_coin # ""
                          THEN Call(0, "stop_strategy", target_coin, "api_stop_timers")
                          ELSE [Call(0, "stop_strategy", coin_configs[1].instId,
                                     "api_stop_timers")
                                  EXCEPT ![0].coins_left =
                                      [k \in 1..(Len(coin_configs) - 1) |->
                                          coin_configs[k + 1].instId]]
    /\ UNCHANGED <<GLOBAL_STATE, orphan_timers, strategy_file, exchange_open, next_ord,
                   risk_state>>

\* lines 486-497: the next coin of the stop-all loop, or else the Timers in the
\* slots are cancelled and is_running is cleared
api_stop_timers ==
    /\ thr[0].pc = "api_stop_timers"
    /\ IF thr[0].coins_left # <<>>
       THEN /\ thr' = [Call(0, "stop_strategy", Head(thr[0].coins_left), "api_stop_timers")
                         EXCEPT ![0].coins_left = Tail(thr[0].coins_left)]
            /\ UNCHANGED <<GLOBAL_STATE, api_resp>>
       ELSE /\ GLOBAL_STATE' =
                 [k \in DOMAIN GLOBAL_STATE |->
                     IF k = "is_running" THEN FALSE
                     ELSE IF k \in Tasks /\ GLOBAL_STATE[k] = "pending" THEN "spent"
                     ELSE GLOBAL_STATE[k]]
            /\ thr' = [thr EXCEPT ![0] = IdleThread]
            /\ api_resp' = "200"
    /\ UNCHANGED <<orphan_timers, strategy_file, exchange_open, next_ord, risk_state>>

\* start_strategy lines 308-346: candles, indicators, grid and volume; either an
\* exception ends the call in the except clause or place_grid_orders is called
start_strategy_compute(t) ==
    /\ thr[t].pc = "start_strategy"
    /\ \E raised \in BOOLEAN :
         thr' = IF raised THEN Return(t) ELSE [thr EXCEPT ![t].pc = "place_grid_orders"]
    /\ UNCHANGED <<GLOBAL_STATE, orphan_timers, strategy_file, exchange_open, next_ord,
                   api_resp, risk_state>>

\* place_grid_orders returns the ids of the orders the exchange accepted
place_grid_orders_returns(t) ==
    /\ thr[t].pc = "place_grid_orders"
    /\ next_ord <= MaxOrders
    /\ exchange_open' = [exchange_open EXCEPT ![thr[t].instId] = @ \cup {next_ord}]
    /\ next_ord' = next_ord + 1
    /\ thr' = [thr EXCEPT ![t].pc = "start_strategy_save", ![t].order_ids = <<next_ord>>]
    /\ UNCHANGED <<GLOBAL_STATE, orphan_timers, strategy_file, api_resp, risk_state>>

\* place_grid_orders raises: start_strategy's except clause, no state saved
place_grid_orders_raises(t) ==
    /\ thr[t].pc = "place_grid_orders"
    /\ thr' = Return(t)
    /\ UNCHANGED <<GLOBAL_STATE, orphan_timers, strategy_file, exchange_open, next_ord,
                   api_resp, risk_state>>

\* start_strategy lines 355-368: save_coin_state
start_strategy_save(t) ==
    /\ thr[t].pc = "start_strategy_save"
    /\ strategy_file' = [strategy_file EXCEPT !.coin_states[thr[t].instId] =
                            [is_running |-> TRUE, order_ids |-> thr[t].order_ids,
                             profit |-> R(0), loss |-> R(0), saved |-> TRUE]]
    /\ thr' = Return(t)
    /\ UNCHANGED <<GLOBAL_STATE, orphan_timers, exchange_open, next_ord, api_resp,
                   risk_state>>

\* stop_strategy lines 383-385: the order ids are read from the state file and
\* cancel_orders is called if there are any
stop_strategy_load(t) ==
    /\ thr[t].pc = "stop_strategy"
    /\ LET order_ids == strategy_file.coin_states[thr[t].instId].order_ids
       IN  thr' = [thr EXCEPT ![t].order_ids = order_ids,
                              ![t].pc = IF order_ids # <<>> THEN "cancel_orders"
                                        ELSE "stop_strategy_save"]
    /\ UNCHANGED <<GLOBAL_STATE, orphan_timers, strategy_file, exchange_open, next_ord,
                   api_resp, risk_state>>

\* cancel_orders returns: the exchange has cancelled the orders
cancel_orders_returns(t) ==
    /\ thr[t].pc = "cancel_orders"
    /\ exchange_open' = [exchange_open EXCEPT ![thr[t].instId] =
                            @ \ {thr[t].order_ids[k] : k \in DOMAIN thr[t].order_ids}]
    /\ thr' = [thr EXCEPT ![t].pc = "stop_strategy_save"]
    /\ UNCHANGED <<GLOBAL_STATE, orphan_timers, strategy_file, next_ord, api_resp,
                   risk_state>>

\* cancel_orders raises: stop_strategy's except clause, the state is not updated
cancel_orders_raises(t) ==
    /\ thr[t].pc = "cancel_orders"
    /\ thr' = Return(t)
    /\ UNCHANGED <<GLOBAL_STATE, orphan_timers, strategy_file, exchange_open, next_ord,
                   api_resp, risk_state>>

\* stop_strategy lines 392-395: save_coin_state(is_running False, order_ids [])
stop_strategy_save(t) ==
    /\ thr[t].pc = "stop_strategy_save"
    /\ strategy_file' = [strategy_file EXCEPT !.coin_states[thr[t].instId] =
                            [@ EXCEPT !.is_running = FALSE, !.order_ids = <<>>,
                                      !.saved = TRUE]]
    /\ thr' = Return(t)
    /\ UNCHANGED <<GLOBAL_STATE, orphan_timers, exchange_open, next_ord, api_resp,
                   risk_state>>

\* a started Timer of the task fires: its callback begins in a thread of its own
timer_fires(task) ==
    /\ \E t \in TimerThreads :
        /\ thr[t].pc = "idle"
        /\ \A u \in TimerThreads : u < t => thr[u].pc # "idle"
        /\ thr' = [thr EXCEPT ![t] =
                      [IdleThread EXCEPT !.task = task,
                          !.pc = CASE task = "global_check_timer" -> "global_check_task"
                                   [] task = "coin_monitor_timer" -> "coin_monitor_task"
                                   [] OTHER -> "daily_report_task"]]
    /\ \E in_slot \in BOOLEAN :
         IF in_slot
         THEN /\ GLOBAL_STATE[task] = "pending"
              /\ GLOBAL_STATE' = [GLOBAL_STATE EXCEPT ![task] = "spent"]
              /\ orphan_timers' = orphan_timers
         ELSE /\ orphan_timers[task] > 0
              /\ orphan_timers' = [orphan_timers EXCEPT ![task] = @ - 1]
              /\ GLOBAL_STATE' = GLOBAL_STATE
    /\ UNCHANGED <<strategy_file, exchange_open, next_ord, api_resp, risk_state>>

\* the last two lines of each task: a new Timer is put in the slot and started,
\* and the callback's thread ends
reschedule(t) ==
    /\ thr[t].pc = "reschedule"
    /\ LET st == StartTimers(GLOBAL_STATE, orphan_timers, {thr[t].task})
       IN  GLOBAL_STATE' = st.gs /\ orphan_timers' = st.orphans
    /\ thr' = [thr EXCEPT ![t] = IdleThread]
    /\ UNCHANGED <<strategy_file, exchange_open, next_ord, api_resp, risk_state>>

\* global_check_task lines 182-188
global_check_begin(t) ==
    /\ thr[t].pc = "global_check_task"
    /\ thr' = IF ~GLOBAL_STATE.is_running \/ GLOBAL_STATE.current_coin = ""
              THEN [thr EXCEPT ![t].pc = "reschedule"]
              ELSE [thr EXCEPT ![t].pc = "global_check_pnl",
                               ![t].instId = GLOBAL_STATE.current_coin]
    /\ UNCHANGED <<GLOBAL_STATE, orphan_timers, strategy_file, exchange_open, next_ord,
                   api_resp, risk_state>>

\* global_check_task lines 189-236: a request raises (except clause), or the
\* coin's profit and loss are read from the state file and compared with the funds
global_check_pnl(t) ==
    /\ thr[t].pc = "global_check_pnl"
    /\ \E raised \in BOOLEAN :
        LET coin_state == strategy_file.coin_states[thr[t].instId]
            total_pnl == RSub(coin_state.profit, coin_state.loss)
            coin_funds == GLOBAL_STATE.funds_distribution[thr[t].instId]
            stop_loss == RLe(total_pnl,
                             RSub(R(0), RMul(coin_funds, risk_params.stop_loss_rate)))
            take_profit == RLe(RMul(coin_funds, risk_params.take_profit_rate), total_pnl)
        IN  thr' = IF raised \/ ~(stop_loss \/ take_profit)
                   THEN [thr EXCEPT ![t].pc = "reschedule", ![t].instId = ""]
                   ELSE Call(t, "stop_strategy", thr[t].instId, "global_check_switch")
    /\ UNCHANGED <<GLOBAL_STATE, orphan_timers, strategy_file, exchange_open, next_ord,
                   api_resp, risk_state>>

\* global_check_task lines 223-227 (and 237-241): select_best_coin, then the new
\* coin is made current and started
global_check_switch(t) ==
    /\ thr[t].pc = "global_check_switch"
    /\ \E new_coin \in Coins \cup {"None"} :
         IF new_coin # "None"
         THEN /\ GLOBAL_STATE' = [GLOBAL_STATE EXCEPT !.current_coin = new_coin]
              /\ strategy_file' = [strategy_file EXCEPT !.current_coin = new_coin]
              /\ thr' = Call(t, "start_strategy", new_coin, "reschedule")
         ELSE /\ thr' = [thr EXCEPT ![t].pc = "reschedule"]
              /\ UNCHANGED <<GLOBAL_STATE, strategy_file>>
    /\ UNCHANGED <<orphan_timers, exchange_open, next_ord, api_resp, risk_state>>

\* coin_monitor_task lines 257-260
coin_monitor_begin(t) ==
    /\ thr[t].pc = "coin_monitor_task"
    /\ thr' = [thr EXCEPT ![t].pc = IF ~GLOBAL_STATE.is_running THEN "reschedule"
                                    ELSE "coin_monitor_select"]
    /\ UNCHANGED <<GLOBAL_STATE, orphan_timers, strategy_file, exchange_open, next_ord,
                   api_resp, risk_state>>

\* coin_monitor_task lines 263-268: select_best_coin; a better coin stops the
\* current one first
coin_monitor_select(t) ==
    /\ thr[t].pc = "coin_monitor_select"
    /\ \E best_coin \in Coins \cup {"None"} :
         thr' = IF best_coin # "None" /\ best_coin # GLOBAL_STATE.current_coin
                THEN IF GLOBAL_STATE.current_coin # ""
                     THEN [Call(t, "stop_strategy", GLOBAL_STATE.current_coin,
                                "coin_monitor_switch")
                             EXCEPT ![t].best_coin = best_coin]
                     ELSE [thr EXCEPT ![t].pc = "coin_monitor_switch",
                                      ![t].best_coin = best_coin]
                ELSE [thr EXCEPT ![t].pc = "reschedule"]
    /\ UNCHANGED <<GLOBAL_STATE, orphan_timers, strategy_file, exchange_open, next_ord,
                   api_resp, risk_state>>

\* coin_monitor_task lines 270-272: the switch to the new coin
coin_monitor_switch(t) ==
    /\ thr[t].pc = "coin_monitor_switch"
    /\ GLOBAL_STATE' = [GLOBAL_STATE EXCEPT !.current_coin = thr[t].best_coin]
    /\ strategy_file' = [strategy_file EXCEPT !.current_coin = thr[t].best_coin]
    /\ thr' = [Call(t, "start_strategy", thr[t].best_coin, "reschedule")
                 EXCEPT ![t].best_coin = ""]
    /\ UNCHANGED <<orphan_timers, exchange_open, next_ord, api_resp, risk_state>>

\* daily_report_task lines 281-293: the report is generated and sent
daily_report_task(t) ==
    /\ thr[t].pc = "daily_report_task"
    /\ thr' = [thr EXCEPT ![t].pc = "reschedule"]
    /\ UNCHANGED <<GLOBAL_STATE, orphan_timers, strategy_file, exchange_open, next_ord,
                   api_resp, risk_state>>

\* spec.md section 3: RiskState is mutated after every closed trade
trade_closed(lost) ==
    /\ risk_state.tradeCountToday < MaxTradeCount
    /\ risk_state' =
         [tradeCountToday |-> risk_state.tradeCountToday + 1,
          consecutiveLossCount |-> IF lost = R(0) THEN 0
                                   ELSE risk_state.consecutiveLossCount + 1,
          dailyLossFraction |-> RAdd(risk_state.dailyLossFraction, lost)]
    /\ UNCHANGED <<GLOBAL_STATE, orphan_timers, thr, strategy_file, exchange_open,
                   next_ord, api_resp>>

----------------------------------------------------------------------------
(* okx_api.place_grid_orders and okx_api.cancel_orders batch by batch, as  *)
(* start_strategy and then stop_strategy call them for one instrument.     *)
(* An accepted batch gets one ordId per order, in the order of the batch.  *)

\* range(0, len(orders), 20) and orders[i:i+20]
BatchSize == 20

\* place_grid_orders lines 229-252: the buy orders, then the sell orders
PlaceOrders(buy_levels, sell_levels) ==
    [k \in 1..Len(buy_levels) |-> [side |-> "buy", px |-> buy_levels[k]]]
    \o [k \in 1..Len(sell_levels) |-> [side |-> "sell", px |-> sell_levels[k]]]

\* a slice that keeps its start at the head of the list
BatchFromStart(list, i) ==
    SubSeq(list, 1, IF i + BatchSize < Len(list) THEN i + BatchSize ELSE Len(list))

\* list[i:i+20]
Batch(list, i) ==
    SubSeq(list, i + 1, IF i + BatchSize < Len(list) THEN i + BatchSize ELSE Len(list))

\* how many levels a list given to place_grid_orders has
LevelCounts == {0, 1, BatchSize, MaxPlaceLevels}

\* prices in ticks around a base price, as start_strategy builds them
OrdBasePrice == 1000

\* start_strategy is at line 347, about to call place_grid_orders
InitOrders ==
    /\ ord_pc = "place_grid_orders"
    /\ \E nb \in LevelCounts, ns \in LevelCounts :
         ord_levels = [buy |-> [k \in 1..nb |-> OrdBasePrice - k],
                       sell |-> [k \in 1..ns |-> OrdBasePrice + k]]
    /\ ord_try = 0
    /\ ord_i = 0
    /\ ord_ids = <<>>
    /\ ord_posts = <<>>
    /\ ord_book = <<>>
    /\ ord_saved = <<>>
    /\ ord_sleeps = 0

\* place_grid_orders lines 254-271: a batch is posted and the exchange accepts
\* it; the ordIds of the response are appended to order_ids
place_post_accepted ==
    /\ ord_pc = "place_grid_orders"
    /\ ord_try < ApiRetryTimes
    /\ LET orders == PlaceOrders(ord_levels.buy, ord_levels.sell)
           batch == Batch(orders, ord_i)
           data == [k \in 1..Len(batch) |->
                       [ordId |-> Len(ord_book) + k, order |-> batch[k],
                        cancel_sent |-> FALSE]]
       IN  /\ ord_i < Len(orders)
           /\ ord_posts' = Append(ord_posts, [path |-> "order", batch |-> batch,
                                              ok |-> TRUE])
           /\ ord_book' = ord_book \o data
           /\ ord_ids' = ord_ids \o [k \in 1..Len(data) |-> data[k].ordId]
           /\ ord_i' = ord_i + BatchSize
    /\ UNCHANGED <<ord_pc, ord_levels, ord_try, ord_saved, ord_sleeps>>

\* lines 265-269: raise_for_status or a code other than "0" raises; the wrapper
\* logs, sleeps and calls place_grid_orders again from its first line
place_post_rejected ==
    /\ ord_pc = "place_grid_orders"
    /\ ord_try < ApiRetryTimes
    /\ LET orders == PlaceOrders(ord_levels.buy, ord_levels.sell)
       IN  /\ ord_i < Len(orders)
           /\ ord_posts' = Append(ord_posts, [path |-> "order",
                                              batch |-> Batch(orders, ord_i),
                                              ok |-> FALSE])
    /\ ord_sleeps' = ord_sleeps + 1
    /\ ord_try' = ord_try + 1
    /\ ord_i' = 0
    /\ ord_ids' = <<>>
    /\ UNCHANGED <<ord_pc, ord_levels, ord_book, ord_saved>>

\* line 272: return order_ids, to start_strategy line 347
place_returns ==
    /\ ord_pc = "place_grid_orders"
    /\ ord_try < ApiRetryTimes
    /\ ord_i >= Len(PlaceOrders(ord_levels.buy, ord_levels.sell))
    /\ ord_pc' = "save_coin_state"
    /\ UNCHANGED <<ord_levels, ord_try, ord_i, ord_ids, ord_posts, ord_book, ord_saved,
                   ord_sleeps>>

\* the wrapper's loop ran out: it raises, and start_strategy's except clause
\* (lines 371-377) ends the call with nothing saved
place_exhausted ==
    /\ ord_pc = "place_grid_orders"
    /\ ord_try >= ApiRetryTimes
    /\ ord_pc' = "start_failed"
    /\ ord_try' = 0
    /\ UNCHANGED <<ord_levels, ord_i, ord_ids, ord_posts, ord_book, ord_saved, ord_sleeps>>

\* start_strategy lines 355-368: save_coin_state with "order_ids": order_ids
orders_saved ==
    /\ ord_pc = "save_coin_state"
    /\ ord_saved' = ord_ids
    /\ ord_pc' = "started"
    /\ ord_ids' = <<>>
    /\ ord_i' = 0
    /\ ord_try' = 0
    /\ UNCHANGED <<ord_levels, ord_posts, ord_book, ord_sleeps>>

\* stop_strategy lines 383-385: the saved order_ids are read; cancel_orders is
\* called if there are any
stop_loads ==
    /\ ord_pc \in {"started", "start_failed"}
    /\ ord_pc' = IF ord_saved # <<>> THEN "cancel_orders" ELSE "stop_save"
    /\ ord_i' = 0
    /\ ord_try' = 0
    /\ UNCHANGED <<ord_levels, ord_ids, ord_posts, ord_book, ord_saved, ord_sleeps>>

\* cancel_orders lines 281-296: a batch of ids is posted and the exchange
\* takes the cancels
cancel_post_accepted ==
    /\ ord_pc = "cancel_orders"
    /\ ord_try < ApiRetryTimes
    /\ ord_i < Len(ord_saved)
    /\ LET batch_ids == Batch(ord_saved, ord_i)
           sent == {batch_ids[k] : k \in DOMAIN batch_ids}
       IN  /\ ord_posts' = Append(ord_posts, [path |-> "cancel-batch-orders",
                                              batch |-> batch_ids, ok |-> TRUE])
           /\ ord_book' = [k \in DOMAIN ord_book |->
                             IF ord_book[k].ordId \in sent
                             THEN [ord_book[k] EXCEPT !.cancel_sent = TRUE]
                             ELSE ord_book[k]]
    /\ ord_i' = ord_i + BatchSize
    /\ UNCHANGED <<ord_pc, ord_levels, ord_try, ord_ids, ord_saved, ord_sleeps>>

\* lines 292-296 raise: the wrapper logs, sleeps and calls cancel_orders again
cancel_post_rejected ==
    /\ ord_pc = "cancel_orders"
    /\ ord_try < ApiRetryTimes
    /\ ord_i < Len(ord_saved)
    /\ ord_posts' = Append(ord_posts, [path |-> "cancel-batch-orders",
                                       batch |-> Batch(ord_saved, ord_i), ok |-> FALSE])
    /\ ord_sleeps' = ord_sleeps + 1
    /\ ord_try' = ord_try + 1
    /\ ord_i' = 0
    /\ UNCHANGED <<ord_pc, ord_levels, ord_ids, ord_book, ord_saved>>

\* the batch loop of cancel_orders is over: back in stop_strategy, line 392
cancel_returns ==
    /\ ord_pc = "cancel_orders"
    /\ ord_try < ApiRetryTimes
    /\ ord_i >= Len(ord_saved)
    /\ ord_pc' = "stop_save"
    /\ UNCHANGED <<ord_levels, ord_try, ord_i, ord_ids, ord_posts, ord_book, ord_saved,
                   ord_sleeps>>

\* the wrapper's loop ran out: stop_strategy's except clause (lines 397-403),
\* the state file is left as it is
cancel_exhausted ==
    /\ ord_pc = "cancel_orders"
    /\ ord_try >= ApiRetryTimes
    /\ ord_pc' = "stop_failed"
    /\ UNCHANGED <<ord_levels, ord_try, ord_i, ord_ids, ord_posts, ord_book, ord_saved,
                   ord_sleeps>>

\* stop_strategy lines 392-395: save_coin_state with "order_ids": []
stop_saves ==
    /\ ord_pc = "stop_save"
    /\ ord_saved' = <<>>
    /\ ord_pc' = "stopped"
    /\ UNCHANGED <<ord_levels, ord_try, ord_i, ord_ids, ord_posts, ord_book, ord_sleeps>>

OrdIdle ==
    /\ ord_pc = "idle" /\ ord_levels = <<>> /\ ord_try = 0 /\ ord_i = 0 /\ ord_ids = <<>>
    /\ ord_posts = <<>> /\ ord_book = <<>> /\ ord_saved = <<>> /\ ord_sleeps = 0

----------------------------------------------------------------------------
(* okx_api: a decorated function called with an env argument.  Each of them *)
(* starts with domain = get_okx_domain(env), inside the request_retry       *)
(* wrapper.                                                                 *)

\* the functions decorated with @request_retry(retry_times=3, retry_delay=3)
OkxApiCalls ==
    {"verify_api", "fetch_ticker", "fetch_candles", "fetch_order_book", "fetch_trades",
     "get_account_info", "get_all_positions", "get_position_risk", "place_grid_orders",
     "cancel_orders", "cancel_all_orders", "query_order_status"}

ApiRetryDelay == 3

\* "live" and "demo" stand for the two strings of lines 11 and 13; the others
\* are strings a caller may pass instead
EnvStrings == {"live", "demo", "", "LIVE", "test"}

get_okx_domain(env) ==
    IF env = "live" THEN "https://www.okx.com"
    ELSE IF env = "demo" THEN "https://www.okx.cab"
    ELSE "ValueError"

InitEnv ==
    /\ env_fn \in OkxApiCalls
    /\ env_arg \in EnvStrings
    /\ env_try = 0
    /\ env_calls = 0
    /\ env_slept = 0
    /\ env_outcome = "running"

\* the wrapped function raises, get_okx_domain's ValueError or a failed request:
\* the wrapper's except clause logs and sleeps, and the loop goes on
okx_call_raises ==
    /\ env_outcome = "running"
    /\ env_try < ApiRetryTimes
    /\ \E request_fails \in BOOLEAN :
         get_okx_domain(env_arg) = "ValueError" \/ request_fails
    /\ env_calls' = env_calls + 1
    /\ env_slept' = env_slept + ApiRetryDelay
    /\ env_try' = env_try + 1
    /\ UNCHANGED <<env_fn, env_arg, env_outcome>>

\* the wrapped function returns
okx_call_returns ==
    /\ env_outcome = "running"
    /\ env_try < ApiRetryTimes
    /\ get_okx_domain(env_arg) # "ValueError"
    /\ env_calls' = env_calls + 1
    /\ env_outcome' = "returned"
    /\ UNCHANGED <<env_fn, env_arg, env_try, env_slept>>

\* the wrapper's loop ran out: raise Exception("API请求重试3次失败")
okx_retry_exhausted ==
    /\ env_outcome = "running"
    /\ env_try >= ApiRetryTimes
    /\ env_outcome' = "raised"
    /\ UNCHANGED <<env_fn, env_arg, env_try, env_calls, env_slept>>

EnvIdle ==
    /\ env_fn = "" /\ env_arg = "" /\ env_try = 0 /\ env_calls = 0 /\ env_slept = 0
    /\ env_outcome = "idle"

----------------------------------------------------------------------------
(* okx_trade_tool: calculate_ema, calculate_macd, get_single_timeframe_signal *)
(*                                                                         *)
(* Numbers.  An EMA of period p divides by p + 1 at every candle, so the   *)
(* exact values outgrow a machine integer.  A natural number of any size   *)
(* is a sequence of base-BigBase digits, least significant first, and is   *)
(* multiplied and divided by machine integers of at most 200 only, one     *)
(* factor at a time.  The number at 0-based index i of a line is held as   *)
(* [pos, neg], the difference of two such naturals, in units of            *)
(* 1 / (K * W^i), where K = fast * slow * signal and                       *)
(* W = (fast+1) * (slow+1) * (signal+1), each given as the sequence of its *)
(* factors: every value the code computes is a whole number of these       *)
(* units, and so are pos and neg.                                          *)

BigBase == 10000000

\* a + b + carry
RECURSIVE BigAddC(_, _, _)
BigAddC(a, b, carry) ==
    IF a = <<>> /\ b = <<>>
    THEN IF carry = 0 THEN <<>> ELSE <<carry>>
    ELSE LET x == (IF a = <<>> THEN 0 ELSE Head(a)) + (IF b = <<>> THEN 0 ELSE Head(b))
                  + carry
         IN  <<x % BigBase>> \o BigAddC(IF a = <<>> THEN <<>> ELSE Tail(a),
                                        IF b = <<>> THEN <<>> ELSE Tail(b),
                                        x \div BigBase)

\* a * m + carry, for a machine integer m of at most 200
RECURSIVE BigTimesC(_, _, _)
BigTimesC(a, m, carry) ==
    IF a = <<>>
    THEN IF carry = 0 THEN <<>>
         ELSE <<carry % BigBase>> \o BigTimesC(<<>>, m, carry \div BigBase)
    ELSE LET x == Head(a) * m + carry
         IN  <<x % BigBase>> \o BigTimesC(Tail(a), m, x \div BigBase)

\* quotient and remainder of a by a machine integer d of at most 200
RECURSIVE BigDivMod(_, _)
BigDivMod(a, d) ==
    IF a = <<>> THEN [q |-> <<>>, r |-> 0]
    ELSE LET hi == BigDivMod(Tail(a), d)
             x == hi.r * BigBase + Head(a)
         IN  [q |-> <<x \div d>> \o hi.q, r |-> x % d]

\* -1, 0 or 1 as a is below, equal to or above b; r is the verdict of the lower digits
RECURSIVE BigCmp(_, _, _)
BigCmp(a, b, r) ==
    IF a = <<>> /\ b = <<>> THEN r
    ELSE LET x == IF a = <<>> THEN 0 ELSE Head(a)
             y == IF b = <<>> THEN 0 ELSE Head(b)
         IN  BigCmp(IF a = <<>> THEN <<>> ELSE Tail(a), IF b = <<>> THEN <<>> ELSE Tail(b),
                    IF x < y THEN -1 ELSE IF x > y THEN 1 ELSE r)

ScZero == [pos |-> <<>>, neg |-> <<>>]
ScAdd(x, y) == [pos |-> BigAddC(x.pos, y.pos, 0), neg |-> BigAddC(x.neg, y.neg, 0)]
ScSub(x, y) == [pos |-> BigAddC(x.pos, y.neg, 0), neg |-> BigAddC(x.neg, y.pos, 0)]
ScTimes(x, m) == [pos |-> BigTimesC(x.pos, m, 0), neg |-> BigTimesC(x.neg, m, 0)]
ScDiv(x, d) == [pos |-> BigDivMod(x.pos, d).q, neg |-> BigDivMod(x.neg, d).q]
ScLess(x, y) == BigCmp(BigAddC(x.pos, y.neg, 0), BigAddC(y.pos, x.neg, 0), 0) = -1

\* x times every machine integer of the sequence ms
RECURSIVE ScTimesAll(_, _)
ScTimesAll(x, ms) == IF ms = <<>> THEN x ELSE ScTimesAll(ScTimes(x, Head(ms)), Tail(ms))

\* the closes in units: with K the product of the periods and W the product of
\* the sequence W, element i (0-based) is close * K * W^i; unit is K * W^i
RECURSIVE ScaledFrom(_, _, _, _)
ScaledFrom(closes, out, unit, W) ==
    IF Len(out) >= Len(closes) THEN out
    ELSE ScaledFrom(closes, Append(out, ScTimes(unit, closes[Len(out) + 1])),
                    ScTimesAll(unit, W), W)

\* the running sums of prices[:period], each in the units of its last index;
\* np.mean(prices[:period]) is the last of them over period
RECURSIVE EmaSeedSum(_, _, _, _)
EmaSeedSum(prices, sums, period, W) ==
    IF Len(sums) >= period THEN sums
    ELSE LET j == Len(sums) + 1
         IN  EmaSeedSum(prices,
                        Append(sums, IF j = 1 THEN prices[1]
                                     ELSE ScAdd(ScTimesAll(sums[j - 1], W), prices[j])),
                        period, W)

\* for i in range(period, len(prices)):
\*     ema[i] = alpha * prices[i] + (1 - alpha) * ema[i - 1], alpha = 2 / (period + 1)
RECURSIVE EmaLoop(_, _, _, _)
EmaLoop(prices, ema, period, W) ==
    IF Len(ema) >= Len(prices) THEN ema
    ELSE LET i == Len(ema) + 1
         IN  EmaLoop(prices,
                     Append(ema, ScDiv(ScAdd(ScTimes(prices[i], 2),
                                             ScTimesAll(ema[i - 1], <<period - 1>> \o W)),
                                       period + 1)),
                     period, W)

\* okx_trade_tool.calculate_ema: zeros, the mean of the first `period` prices
\* at index period - 1, then the recursion
calculate_ema(prices, period, W) ==
    EmaLoop(prices,
            [k \in 1..period |-> IF k < period THEN ScZero
                                 ELSE ScDiv(EmaSeedSum(prices, <<>>, period, W)[period],
                                            period)],
            period, W)

\* a guard that lets a series of max(...) closes through
MacdTooShortByOne(close_prices, fastperiod, slowperiod, signalperiod) ==
    \E p \in {fastperiod, slowperiod, signalperiod} : Len(close_prices) < p

\* len(close_prices) < max(fastperiod, slowperiod, signalperiod) + 1
MacdTooShort(close_prices, fastperiod, slowperiod, signalperiod) ==
    \E p \in {fastperiod, slowperiod, signalperiod} : Len(close_prices) < p + 1

\* okx_trade_tool.calculate_macd
tool_calculate_macd(close_prices, fastperiod, slowperiod, signalperiod) ==
    IF MacdTooShort(close_prices, fastperiod, slowperiod, signalperiod)
    THEN [macd_line |-> <<>>, signal_line |-> <<>>]
    ELSE LET K == <<fastperiod, slowperiod, signalperiod>>
             W == <<fastperiod + 1, slowperiod + 1, signalperiod + 1>>
             unit == ScTimesAll([pos |-> <<1>>, neg |-> <<>>], K)
             prices == ScaledFrom(close_prices, <<>>, unit, W)
             ema_fast == calculate_ema(prices, fastperiod, W)
             ema_slow == calculate_ema(prices, slowperiod, W)
             macd_line == [i \in 1..Len(prices) |-> ScSub(ema_fast[i], ema_slow[i])]
             signal_line == calculate_ema(macd_line, signalperiod, W)
             min_len == IF Len(macd_line) < Len(signal_line) THEN Len(macd_line)
                        ELSE Len(signal_line)
         IN  [macd_line |-> LastN(macd_line, min_len),
              signal_line |-> LastN(signal_line, min_len)]

\* the lines of get_single_timeframe_signal: calculate_macd with its defaults
DefaultMacd(klines) ==
    tool_calculate_macd([k \in 1..Len(klines) |-> klines[k].close], 12, 26, 9)

\* okx_trade_tool.get_single_timeframe_signal
get_single_timeframe_signal(klines) ==
    IF Len(klines) < 30 THEN "hold"
    ELSE LET macd_line == DefaultMacd(klines).macd_line
             signal_line == DefaultMacd(klines).signal_line
             n == Len(macd_line)
         IN  IF Len(macd_line) < 2 \/ Len(signal_line) < 2 THEN "hold"
             ELSE IF ScLess(signal_line[n], macd_line[n])
                     /\ ScLess(macd_line[n - 1], signal_line[n - 1]) THEN "buy"
             ELSE IF ScLess(macd_line[n], signal_line[n])
                     /\ ScLess(signal_line[n - 1], macd_line[n - 1]) THEN "sell"
             ELSE "hold"

\* candle lists for the signal: closes that stay, rise, fall, jump once and
\* come back, over MaxCandles candles
SignalShapes == {"flat", "ramp", "fall", "jump", "bump", "spike"}

ShapeClose(shape, k) ==
    CASE shape = "flat" -> 100
      [] shape = "ramp" -> 99 + k
      [] shape = "fall" -> 200 - k
      [] shape = "jump" -> IF k <= 29 THEN 1 ELSE 100
      [] shape = "bump" -> IF k = 26 THEN 50 ELSE 1
      [] OTHER -> IF k = 28 THEN 100 ELSE 0

SignalCandles(shape, len) == [k \in 1..len |-> [ts |-> k, close |-> ShapeClose(shape, k)]]

InitSignal ==
    /\ sig_candles \in {SignalCandles(shape, MaxCandles) : shape \in SignalShapes}
    /\ sig_n = 0
    /\ sig_out = "none"

\* the candle list has grown by one candle and the signal is asked for again
signal_call ==
    /\ sig_n < Len(sig_candles)
    /\ sig_n' = sig_n + 1
    /\ sig_out' = get_single_timeframe_signal(SubSeq(sig_candles, 1, sig_n + 1))
    /\ UNCHANGED sig_candles

SigIdle == sig_candles = <<>> /\ sig_n = 0 /\ sig_out = "idle"

\* close series of every length up to MaxMacdLen that stay, rise or fall
MacdCloses ==
    {[k \in 1..len |-> CASE shape = "flat" -> 7 [] shape = "ramp" -> 2 * k [] OTHER -> 9 - k] :
        len \in 0..MaxMacdLen, shape \in {"flat", "ramp", "fall"}}

InitMacd ==
    /\ macd_closes \in MacdCloses
    /\ macd_periods \in [fast : 1..MaxMacdPeriod, slow : 1..MaxMacdPeriod,
                         signal : 1..MaxMacdPeriod]
    /\ macd_out = [state |-> "pending"]

macd_call ==
    /\ macd_out.state = "pending"
    /\ macd_out' = [state |-> "returned",
                    lines |-> tool_calculate_macd(macd_closes, macd_periods.fast,
                                                  macd_periods.slow, macd_periods.signal)]
    /\ UNCHANGED <<macd_closes, macd_periods>>

MacdIdle == macd_closes = <<>> /\ macd_periods = <<>> /\ macd_out = [state |-> "idle"]

----------------------------------------------------------------------------
(* okx_trade_tool: analyze_multi_timeframe *)

\* Config.TIMEFRAMES
TIMEFRAMES == <<"15m", "1h", "4h">>

\* what the exchange may answer to a candle request: nothing usable, or the
\* candles of a market that stays, has just turned up, or has just turned down
CandleReplies == {"error", "flat", "jump", "bump"}

\* fetch_okx_candles on such an answer: [] on an error code, an empty data
\* list or an exception, else the candles (30 of them)
fetch_okx_candles_of(reply) ==
    IF reply = "error" THEN <<>> ELSE SignalCandles(reply, 30)

\* the resonance that calls for a trade as soon as one timeframe does
any_timeframe_signal(timeframe_signals) ==
    IF \E tf \in DOMAIN timeframe_signals : timeframe_signals[tf] = "buy" THEN "buy"
    ELSE IF \E tf \in DOMAIN timeframe_signals : timeframe_signals[tf] = "sell" THEN "sell"
    ELSE "hold"

\* multi_signal = "hold"; if all(s == "buy" ...): "buy"; elif all(s == "sell" ...): "sell"
multi_timeframe_signal(timeframe_signals) ==
    IF \A tf \in DOMAIN timeframe_signals : timeframe_signals[tf] = "buy" THEN "buy"
    ELSE IF \A tf \in DOMAIN timeframe_signals : timeframe_signals[tf] = "sell" THEN "sell"
    ELSE "hold"

InitResonance ==
    /\ res_pc = "loop"
    /\ res_replies = <<>>
    /\ res_signals = <<>>
    /\ res_out = [state |-> "pending"]

\* for tf in Config.TIMEFRAMES: the fetch gave no candles
resonance_fetch_empty ==
    /\ res_pc = "loop"
    /\ \E reply \in CandleReplies :
           /\ fetch_okx_candles_of(reply) = <<>>
           /\ res_replies' = Append(res_replies, reply)
           /\ res_signals' = (TIMEFRAMES[Len(res_replies) + 1] :> "hold") @@ res_signals
    /\ res_pc' = IF Len(res_replies) + 1 = Len(TIMEFRAMES) THEN "judge" ELSE "loop"
    /\ UNCHANGED res_out

\* for tf in Config.TIMEFRAMES: the fetch gave candles
resonance_fetch_signal ==
    /\ res_pc = "loop"
    /\ \E reply \in CandleReplies :
           /\ fetch_okx_candles_of(reply) # <<>>
           /\ res_replies' = Append(res_replies, reply)
           /\ res_signals' = (TIMEFRAMES[Len(res_replies) + 1]
                                  :> get_single_timeframe_signal(fetch_okx_candles_of(reply)))
                             @@ res_signals
    /\ res_pc' = IF Len(res_replies) + 1 = Len(TIMEFRAMES) THEN "judge" ELSE "loop"
    /\ UNCHANGED res_out

\* the resonance of the timeframes
resonance_judge ==
    /\ res_pc = "judge"
    /\ res_out' = [state |-> "judged",
                   multiTimeframeSignal |-> multi_timeframe_signal(res_signals)]
    /\ res_pc' = "main"
    /\ UNCHANGED <<res_replies, res_signals>>

\* the 15m candles are fetched once more for the single signal and the last
\* price, and the dict is returned
resonance_return ==
    /\ res_pc = "main"
    /\ \E reply \in CandleReplies :
           LET main_candles == fetch_okx_candles_of(reply)
           IN  /\ res_replies' = Append(res_replies, reply)
               /\ res_out' =
                      [state |-> "returned",
                       multiTimeframeSignal |-> res_out.multiTimeframeSignal,
                       signal |-> IF main_candles # <<>>
                                  THEN get_single_timeframe_signal(main_candles)
                                  ELSE "hold",
                       lastPrice |-> IF main_candles # <<>>
                                     THEN main_candles[Len(main_candles)].close
                                     ELSE 0,
                       timeframeSignals |-> res_signals]
    /\ res_pc' = "done"
    /\ UNCHANGED res_signals

ResIdle ==
    /\ res_pc = "idle" /\ res_replies = <<>> /\ res_signals = <<>>
    /\ res_out = [state |-> "idle"]

----------------------------------------------------------------------------
(* okx_api.fetch_candles, okx_trade_tool.fetch_okx_candles *)

\* the most rows one response carries
MaxRows == 3

\* item[0] of a row: a millisecond timestamp as a string of decimal digits
TsStrings == {<<9, 0, 0>>, <<1, 0, 0, 0>>, <<1, 5, 0, 0>>, <<2, 0, 0, 0>>}

\* int(item[0])
RECURSIVE IntOfDigits(_)
IntOfDigits(digits) ==
    IF digits = <<>> THEN 0
    ELSE 10 * IntOfDigits(SubSeq(digits, 1, Len(digits) - 1)) + digits[Len(digits)]

\* the data lists of a response: rows of distinct candles, in any order
RowLists ==
    {rows \in SeqsUpTo(TsStrings, MaxRows) :
        \A i, j \in 1..Len(rows) : i # j => rows[i] # rows[j]}

\* the rows are listed newest first
NewestFirst(rows) ==
    \A i \in 1..Len(rows) - 1 : IntOfDigits(rows[i]) > IntOfDigits(rows[i + 1])

\* s[::-1]
Reversed(s) == [i \in 1..Len(s) |-> s[Len(s) + 1 - i]]

\* sorted(candles, key=lambda x: x["ts"]): a stable sort
RECURSIVE SortedByTs(_)
SortedByTs(cs) ==
    IF cs = <<>> THEN <<>>
    ELSE LET rest == SortedByTs(SubSeq(cs, 1, Len(cs) - 1))
             c == cs[Len(cs)]
             before == {i \in 1..Len(rest) : rest[i].ts <= c.ts}
         IN  [i \in 1..Len(cs) |->
                 IF i <= Cardinality(before) THEN rest[i]
                 ELSE IF i = Cardinality(before) + 1 THEN c
                 ELSE rest[i - 1]]

\* the candles okx_api.fetch_candles builds: the rows reversed, the timestamp in seconds
fetch_candles_of(rows) ==
    LET data == Reversed(rows)
    IN  [i \in 1..Len(data) |-> [timestamp |-> Rat(IntOfDigits(data[i]), 1000)]]

\* the candles okx_trade_tool.fetch_okx_candles builds: the rows sorted by ts
fetch_okx_candles_from(rows) ==
    SortedByTs([i \in 1..Len(rows) |-> [ts |-> IntOfDigits(rows[i])]])

InitCandles ==
    /\ cnd_fn \in {"fetch_candles", "fetch_okx_candles"}
    /\ cnd_try = 0
    /\ cnd_rows = <<>>
    /\ cnd_out = [state |-> "running"]

\* okx_api.fetch_candles: the response has code "0"
fetch_candles_returns ==
    /\ cnd_fn = "fetch_candles" /\ cnd_out.state = "running"
    /\ \E rows \in RowLists :
           /\ cnd_rows' = rows
           /\ cnd_out' = [state |-> "returned", candles |-> fetch_candles_of(rows)]
    /\ UNCHANGED <<cnd_fn, cnd_try>>

\* okx_api.fetch_candles: the request fails or the code is not "0"; the
\* request_retry wrapper sleeps and tries again, ApiRetryTimes times in all
fetch_candles_raises ==
    /\ cnd_fn = "fetch_candles" /\ cnd_out.state = "running"
    /\ cnd_try' = cnd_try + 1
    /\ cnd_out' = IF cnd_try + 1 >= ApiRetryTimes THEN [state |-> "raised"] ELSE cnd_out
    /\ UNCHANGED <<cnd_fn, cnd_rows>>

\* okx_trade_tool.fetch_okx_candles: code "0" and rows in the data
fetch_okx_candles_returns ==
    /\ cnd_fn = "fetch_okx_candles" /\ cnd_out.state = "running"
    /\ \E rows \in RowLists \ {<<>>} :
           /\ cnd_rows' = rows
           /\ cnd_out' = [state |-> "returned", candles |-> fetch_okx_candles_from(rows)]
    /\ UNCHANGED <<cnd_fn, cnd_try>>

\* okx_trade_tool.fetch_okx_candles: another code, no rows or an exception
fetch_okx_candles_fails ==
    /\ cnd_fn = "fetch_okx_candles" /\ cnd_out.state = "running"
    /\ cnd_out' = [state |-> "returned", candles |-> <<>>]
    /\ UNCHANGED <<cnd_fn, cnd_try, cnd_rows>>

CndIdle ==
    /\ cnd_fn = "" /\ cnd_try = 0 /\ cnd_rows = <<>> /\ cnd_out = [state |-> "idle"]

----------------------------------------------------------------------------
(* main.adjust_grid_by_factors, statement by statement, on list objects *)

\* the most levels a list given to adjust_grid_by_factors holds
MaxAdjustLevels == 2

\* a new reference of a heap
NewRef(heap) == Cardinality(DOMAIN heap) + 1

\* a second name for the same list object
list_alias(heap, ref) == [heap |-> heap, ref |-> ref]

\* list.copy(): a new list object with the same items
list_copy(heap, ref) ==
    [heap |-> (NewRef(heap) :> heap[ref]) @@ heap, ref |-> NewRef(heap)]

\* the grid plans a caller may hold: buy levels falling from 990, sell levels
\* rising from 1010
AdjustBuyLists == {[k \in 1..n |-> R(1000 - 10 * k)] : n \in 0..MaxAdjustLevels}
AdjustSellLists == {[k \in 1..n |-> R(1000 + 10 * k)] : n \in 0..MaxAdjustLevels}

InitAdjust ==
    /\ adj_pc = "copy"
    /\ \E buy \in AdjustBuyLists, sell \in AdjustSellLists :
           /\ adj_heap = <<buy, sell>>
           /\ adj_given = [buy |-> buy, sell |-> sell]
    /\ adj_args \in [buy_levels : {1}, sell_levels : {2},
                     rsi : {R(20), R(50), R(80)},
                     macd : [golden_cross : BOOLEAN, death_cross : BOOLEAN],
                     trend : {"up", "down", "sideways"}]
    /\ adj_local = <<>>
    /\ adj_ret = <<>>

\* adjusted_buy = buy_levels.copy(); adjusted_sell = sell_levels.copy()
adjust_copy ==
    /\ adj_pc = "copy"
    /\ LET b == list_copy(adj_heap, adj_args.buy_levels)
           s == list_copy(b.heap, adj_args.sell_levels)
       IN  /\ adj_heap' = s.heap
           /\ adj_local' = [adjusted_buy |-> b.ref, adjusted_sell |-> s.ref]
    /\ adj_pc' = "rsi"
    /\ UNCHANGED <<adj_args, adj_given, adj_ret>>

\* if rsi > 70: the loop over adjusted_sell; elif rsi < 30: over adjusted_buy
adjust_rsi ==
    /\ adj_pc = "rsi"
    /\ adj_heap' =
           IF RLt(R(70), adj_args.rsi)
           THEN [adj_heap EXCEPT ![adj_local.adjusted_sell] = ShrinkSpacing(@)]
           ELSE IF RLt(adj_args.rsi, R(30))
           THEN [adj_heap EXCEPT ![adj_local.adjusted_buy] = ShrinkSpacing(@)]
           ELSE adj_heap
    /\ adj_pc' = "macd"
    /\ UNCHANGED <<adj_args, adj_given, adj_local, adj_ret>>

\* if macd["golden_cross"]: adjusted_buy.append(...); elif macd["death_cross"]:
\* adjusted_sell.append(...)
adjust_macd ==
    /\ adj_pc = "macd"
    /\ LET buy == adj_heap[adj_local.adjusted_buy]
           sell == adj_heap[adj_local.adjusted_sell]
       IN  IF adj_args.macd.golden_cross
           THEN IF Len(buy) < 2
                THEN adj_pc' = "raised" /\ UNCHANGED adj_heap      \* IndexError
                ELSE /\ adj_heap' = [adj_heap EXCEPT ![adj_local.adjusted_buy] =
                                        Append(@, GoldenCrossLevel(@))]
                     /\ adj_pc' = "trend"
           ELSE IF adj_args.macd.death_cross
           THEN IF Len(sell) < 2
                THEN adj_pc' = "raised" /\ UNCHANGED adj_heap      \* IndexError
                ELSE /\ adj_heap' = [adj_heap EXCEPT ![adj_local.adjusted_sell] =
                                        Append(@, DeathCrossLevel(@))]
                     /\ adj_pc' = "trend"
           ELSE adj_pc' = "trend" /\ UNCHANGED adj_heap
    /\ UNCHANGED <<adj_args, adj_given, adj_local, adj_ret>>

\* if trend == "up": adjusted_sell = []; elif trend == "down": adjusted_buy = [];
\* return adjusted_buy, adjusted_sell
adjust_trend_return ==
    /\ adj_pc = "trend"
    /\ LET fresh == NewRef(adj_heap)
           out == IF adj_args.trend = "up"
                  THEN [adj_local EXCEPT !.adjusted_sell = fresh]
                  ELSE IF adj_args.trend = "down"
                  THEN [adj_local EXCEPT !.adjusted_buy = fresh]
                  ELSE adj_local
       IN  /\ adj_heap' = IF adj_args.trend \in {"up", "down"}
                          THEN (fresh :> <<>>) @@ adj_heap ELSE adj_heap
           /\ adj_local' = out
           /\ adj_ret' = <<out.adjusted_buy, out.adjusted_sell>>
    /\ adj_pc' = "returned"
    /\ UNCHANGED <<adj_args, adj_given>>

AdjIdle ==
    /\ adj_pc = "idle" /\ adj_heap = <<>> /\ adj_args = <<>> /\ adj_given = <<>>
    /\ adj_local = <<>> /\ adj_ret = <<>>

----------------------------------------------------------------------------
(* utils.save_coin_state, set_current_coin and update_funds_distribution   *)
(* called from several threads on the one state file, without a lock       *)

\* the most threads that write the state file at one time
MaxWriters == 2

PfThreads == 1..MaxWriters

\* dict.update(): the keys of u replace or extend those of d
dict_update(d, u) ==
    [k \in DOMAIN d \cup DOMAIN u |-> IF k \in DOMAIN u THEN u[k] ELSE d[k]]

\* a replacement of the whole dict by u
dict_replace(d, u) == u

\* the document init_data_persistence writes
FreshFile ==
    [total_profit |-> R(0), total_loss |-> R(0), coin_states |-> <<>>,
     current_coin |-> "", total_funds |-> R(0), funds_distribution |-> <<>>]

\* the state start_strategy saves (lines 355-368; of its keys the ones the
\* robot reads back or reports) and the state stop_strategy saves (392-395)
StartedState ==
    [is_running |-> TRUE, buy_levels |-> <<R(990), R(980)>>,
     sell_levels |-> <<R(1010), R(1020)>>, order_ids |-> <<"o1", "o2">>,
     leverage |-> 3, profit |-> R(0), loss |-> R(0)]
StoppedState == [is_running |-> FALSE, order_ids |-> <<>>]

\* a document left by an earlier run: one coin trading, one coin stopped
UsedFile ==
    [total_profit |-> R(12), total_loss |-> R(5),
     coin_states |->
         [c \in Coins |->
             IF c = "BTC-USDT-SWAP" THEN StartedState
             ELSE dict_update(StartedState, StoppedState)],
     current_coin |-> "BTC-USDT-SWAP", total_funds |-> R(0),
     funds_distribution |-> [c \in Coins |-> R(500)]]

\* save_coin_state lines 70-73, on the loaded document
save_coin_state(data, instId, state) ==
    LET known == IF instId \in DOMAIN data.coin_states
                 THEN data.coin_states[instId] ELSE <<>>
    IN  [data EXCEPT !.coin_states =
            dict_update(@, [c \in {instId} |-> dict_update(known, state)])]

\* set_current_coin line 81
set_current_coin(data, instId) == [data EXCEPT !.current_coin = instId]

\* update_funds_distribution line 89
update_funds_distribution(data, funds_dist) ==
    [data EXCEPT !.funds_distribution = funds_dist]

\* the calls main.py makes: start_strategy and stop_strategy save a coin state,
\* the API handlers and the two switching tasks set the current coin, the
\* start handler stores the funds distribution
PersistCalls ==
    [fn : {"save_coin_state"}, instId : Coins, arg : {StartedState, StoppedState}]
    \cup [fn : {"set_current_coin"}, instId : Coins, arg : {<<>>}]
    \cup [fn : {"update_funds_distribution"}, instId : {""},
          arg : {calculate_funds_distribution(f) : f \in TotalFundsChoices}]

\* the body of a call between json.load and f.seek(0)
Modified(data, call) ==
    IF call.fn = "save_coin_state" THEN save_coin_state(data, call.instId, call.arg)
    ELSE IF call.fn = "set_current_coin" THEN set_current_coin(data, call.instId)
    ELSE update_funds_distribution(data, call.arg)

InitFile ==
    /\ pf_file \in {FreshFile, UsedFile}
    /\ pf_given = pf_file
    /\ pf_call \in [PfThreads -> PersistCalls]
    /\ pf_pc = [t \in PfThreads |-> "open"]
    /\ pf_data = [t \in PfThreads |-> <<>>]

\* with open(data_path, "r+") as f: data = json.load(f)
persist_load(t) ==
    /\ pf_pc[t] = "open"
    /\ pf_data' = [pf_data EXCEPT ![t] = pf_file]
    /\ pf_pc' = [pf_pc EXCEPT ![t] = "loaded"]
    /\ UNCHANGED <<pf_file, pf_given, pf_call>>

\* the change of data; f.seek(0); json.dump(data, f); f.truncate(): the buffered
\* document reaches the file in the flush of truncate
persist_dump(t) ==
    /\ pf_pc[t] = "loaded"
    /\ pf_file' = Modified(pf_data[t], pf_call[t])
    /\ pf_pc' = [pf_pc EXCEPT ![t] = "done"]
    /\ UNCHANGED <<pf_given, pf_call, pf_data>>

PfIdle ==
    /\ pf_file = <<>> /\ pf_given = <<>> /\ pf_call = <<>> /\ pf_pc = <<>>
    /\ pf_data = <<>>

----------------------------------------------------------------------------
(* main.select_best_coin: the loop over GLOBAL_STATE["coin_configs"] *)

\* the most coins configured
MaxSelectCoins == 2

\* instIds for the configured coins, in the order of the configuration
SelectInstIds ==
    <<"BTC-USDT-SWAP", "ETH-USDT-SWAP", "SOL-USDT-SWAP", "DOGE-USDT-SWAP",
      "XRP-USDT-SWAP">>

\* GLOBAL_STATE["coin_configs"] with the volatility window of each coin
select_configs ==
    [k \in 1..MaxSelectCoins |->
        [instId |-> SelectInstIds[k], min_volatility |-> <<2, 100>>,
         max_volatility |-> <<5, 100>>]]

\* what one pass of the try block can meet: a call that raises, or a trend, a
\* 24h volatility and an RSI
SelectFindings ==
    [raised : {"fetch_ticker", "fetch_candles", "judge_trend", "calculate_rsi"},
     trend : {"none"}, volatility : {R(0)}, rsi : {R(0)}]
    \cup [raised : {"none"}, trend : {"up", "down", "shock"},
          volatility : {<<1, 100>>, <<2, 100>>, <<5, 100>>, <<6, 100>>},
          rsi : {R(29), R(30), R(70), R(71)}]

\* lines 97-103: the score of a coin
select_score(coin, found) ==
    (IF found.trend = "shock" THEN 5 ELSE 0)
    + (IF RLe(coin.min_volatility, found.volatility)
          /\ RLe(found.volatility, coin.max_volatility) THEN 3 ELSE 0)
    + (IF RLe(R(30), found.rsi) /\ RLe(found.rsi, R(70)) THEN 2 ELSE 0)

\* a comparison that lets an equal score replace the best coin
score_not_below(score, best) == score >= best

\* line 105: if score > best_score
score_above(score, best) == score > best

InitSelect ==
    /\ sel_pc = "loop"
    /\ sel_seen = <<>>
    /\ sel_best_coin = "None"
    /\ sel_best_score = 0
    /\ sel_ret = "none"

\* one pass of the for loop, lines 89-110: the try block for the next coin, or
\* its except clause
select_try_coin ==
    /\ sel_pc = "loop"
    /\ Len(sel_seen) < Len(select_configs)
    /\ \E found \in SelectFindings :
        LET coin == select_configs[Len(sel_seen) + 1]
            score == select_score(coin, found)
        IN  /\ sel_seen' = Append(sel_seen, found)
            /\ IF found.raised = "none" /\ score_above(score, sel_best_score)
               THEN sel_best_score' = score /\ sel_best_coin' = coin.instId
               ELSE UNCHANGED <<sel_best_score, sel_best_coin>>
    /\ UNCHANGED <<sel_pc, sel_ret>>

\* line 111: return best_coin if best_score >= 5 else None
select_return ==
    /\ sel_pc = "loop"
    /\ Len(sel_seen) = Len(select_configs)
    /\ sel_ret' = IF sel_best_score >= 5 THEN sel_best_coin ELSE "None"
    /\ sel_pc' = "returned"
    /\ UNCHANGED <<sel_seen, sel_best_coin, sel_best_score>>

SelIdle ==
    /\ sel_pc = "idle" /\ sel_seen = <<>> /\ sel_best_coin = "" /\ sel_best_score = 0
    /\ sel_ret = ""

----------------------------------------------------------------------------
(* okx_trade_tool.backtest_strategy: the replay of the strategy over the   *)
(* candles, prices in USDT                                                  *)

\* the most candles a backtest is given
MaxBacktestCandles == 31

\* Config.INIT_CAPITAL, Config.RISK_RATIO (0.02 = 1/RiskRatioInverse), Config.LEVERAGE
INIT_CAPITAL == 1000
RiskRatioInverse == 50
LEVERAGE == 10

\* range(14, len(backtest_candles)) starts here
BacktestFirst == 14

\* default of calculate_atr's parameter period
ToolAtrPeriod == 14

\* round(x, 4) of a value in natural units
round_4dp(x) == Rat(RoundHalfEven(RMul(x, R(10000))), 10000)

\* okx_trade_tool.calculate_atr on candles with integer prices
tool_calculate_atr(klines, period) ==
    IF Len(klines) < period + 1 THEN R(0)
    ELSE LET trs == [k \in 1..(Len(klines) - 1) |->
                        LET high == R(klines[k + 1].high)
                            low == R(klines[k + 1].low)
                            prev_close == R(klines[k].close)
                        IN  RMax(RSub(high, low),
                                 RMax(RAbs(RSub(high, prev_close)),
                                      RAbs(RSub(low, prev_close))))]
         IN  round_4dp(RDiv(RSum(LastN(trs, period)), R(period)))

\* close series for the backtest: a price that stays, jumps up and stays,
\* goes on rising, falls back a little or wholly, or spikes and returns
BacktestShapes == {"flat", "jump", "rise", "dip", "back", "bump", "squeeze"}

BacktestClose(shape, k) ==
    CASE shape = "jump" -> IF k <= 29 THEN 8 ELSE 106
      [] shape = "rise" -> IF k <= 29 THEN 8 ELSE IF k = 30 THEN 106 ELSE 120
      [] shape = "dip" -> IF k <= 29 THEN 8 ELSE IF k = 30 THEN 106 ELSE 92
      [] shape = "back" -> IF k = 30 THEN 106 ELSE 8
      [] shape = "bump" -> IF k = 28 THEN 106 ELSE 8
      [] shape = "squeeze" -> IF k = 28 THEN 106 ELSE IF k <= 30 THEN 8 ELSE 50
      [] OTHER -> 8

\* candles whose high and low lie wick above and below the close
BacktestCandles(shape, wick, len) ==
    [k \in 1..len |->
        [ts |-> k, high |-> BacktestClose(shape, k) + wick,
         low |-> BacktestClose(shape, k) - wick, close |-> BacktestClose(shape, k)]]

\* the state before the loop, lines 190-194
InitBacktest ==
    /\ bt_pc = "loop"
    /\ bt_candles \in {BacktestCandles(shape, wick, MaxBacktestCandles) :
                           shape \in BacktestShapes, wick \in {0, 7}}
    /\ bt_i = BacktestFirst
    /\ bt_local = [capital |-> R(INIT_CAPITAL), position |-> R(0), entry_price |-> R(0),
                   win_count |-> 0, total_trades |-> 0]
    /\ bt_trades = <<>>

\* the stop price of lines 208: below the price on a buy signal, above it otherwise
stop_loss_price(signal, current_price, atr) ==
    IF signal = "buy" THEN RSub(current_price, atr) ELSE RAdd(current_price, atr)

\* profit of closing the position at current_price, lines 227 and 242
close_profit(current_price) ==
    IF RLt(R(0), bt_local.position)
    THEN RMul(RMul(RSub(current_price, bt_local.entry_price), bt_local.position),
              R(LEVERAGE))
    ELSE RMul(RMul(RSub(bt_local.entry_price, current_price), RAbs(bt_local.position)),
              R(LEVERAGE))

\* the close of the position: capital, win_count, trades, position (lines 227-240)
ClosedAs(type, current_price) ==
    LET profit == close_profit(current_price)
        capital == RAdd(bt_local.capital, profit)
    IN  /\ bt_local' = [bt_local EXCEPT
                           !.capital = capital,
                           !.win_count = IF RLt(R(0), profit) THEN @ + 1 ELSE @,
                           !.position = R(0)]
        /\ bt_trades' = Append(bt_trades,
                               [type |-> type, entry_price |-> bt_local.entry_price,
                                exit_price |-> current_price, profit |-> profit,
                                capital |-> capital])

\* one pass of the for loop, lines 197-254
backtest_candle ==
    /\ bt_pc = "loop"
    /\ bt_i < Len(bt_candles)
    /\ \E current_candles \in {SubSeq(bt_candles, 1, bt_i + 1)} :
       \E signal \in {get_single_timeframe_signal(current_candles)},
          current_price \in {R(current_candles[Len(current_candles)].close)},
          atr \in {tool_calculate_atr(current_candles, ToolAtrPeriod)} :
           IF atr = R(0)
           THEN UNCHANGED <<bt_local, bt_trades>>                       \* continue
           ELSE
             \E stop_loss \in {stop_loss_price(signal, current_price, atr)} :
             \E position_size \in
                    {RDiv(RDiv(RDiv(bt_local.capital, R(RiskRatioInverse)),
                               RAbs(RSub(current_price, stop_loss))),
                          R(LEVERAGE))} :
                 IF bt_local.position = R(0)
                 THEN /\ bt_local' =
                            IF signal = "buy"
                            THEN [bt_local EXCEPT !.position = position_size,
                                                  !.entry_price = current_price,
                                                  !.total_trades = @ + 1]
                            ELSE IF signal = "sell"
                            THEN [bt_local EXCEPT !.position = RSub(R(0), position_size),
                                                  !.entry_price = current_price,
                                                  !.total_trades = @ + 1]
                            ELSE bt_local
                      /\ UNCHANGED bt_trades
                 ELSE IF \/ RLt(R(0), bt_local.position) /\ RLe(current_price, stop_loss)
                         \/ RLt(bt_local.position, R(0)) /\ RLe(stop_loss, current_price)
                 THEN ClosedAs("stop_loss", current_price)
                 ELSE IF \/ RLt(R(0), bt_local.position) /\ signal = "sell"
                         \/ RLt(bt_local.position, R(0)) /\ signal = "buy"
                 THEN ClosedAs("signal", current_price)
                 ELSE UNCHANGED <<bt_local, bt_trades>>
    /\ bt_i' = bt_i + 1
    /\ UNCHANGED <<bt_pc, bt_candles>>

\* the loop is over: the result dict is built from the locals, lines 257-270
backtest_returns ==
    /\ bt_pc = "loop"
    /\ bt_i >= Len(bt_candles)
    /\ bt_pc' = "returned"
    /\ UNCHANGED <<bt_candles, bt_i, bt_local, bt_trades>>

BtIdle ==
    /\ bt_pc = "idle" /\ bt_candles = <<>> /\ bt_i = 0 /\ bt_local = <<>>
    /\ bt_trades = <<>>

----------------------------------------------------------------------------
(* Specifications *)

RetryIdle ==
    /\ retry_times = 0 /\ retry_delay = 0 /\ failures = 0 /\ retry_i = 0
    /\ calls = 0 /\ sleeps = 0 /\ slept = 0 /\ outcome = "idle" /\ retval = "none"

AtrIdle ==
    atr_candles = <<>> /\ atr_period = 0 /\ atr_result = [err |-> "idle", val |-> R(0)]

SysIdle ==
    /\ GLOBAL_STATE = [is_running |-> FALSE] /\ orphan_timers = <<>> /\ thr = <<>>
    /\ strategy_file = <<>> /\ exchange_open = <<>> /\ next_ord = 0
    /\ api_resp = "idle" /\ risk_state = NoRisk

UnitIdle ==
    OrdIdle /\ EnvIdle /\ SigIdle /\ MacdIdle /\ ResIdle /\ CndIdle /\
    AdjIdle /\ PfIdle /\ SelIdle /\ BtIdle

NextRetry ==
    \/ RetryCallRaises /\ UNCHANGED <<atrVars, startVars, sysVars, unitVars>>
    \/ RetryCallReturns /\ UNCHANGED <<atrVars, startVars, sysVars, unitVars>>
    \/ RetryExhausted /\ UNCHANGED <<atrVars, startVars, sysVars, unitVars>>

RetryOnly == InitRetry /\ AtrIdle /\ StartIdle /\ SysIdle /\ UnitIdle

SpecRetry == RetryOnly /\ [][NextRetry]_vars

NextAtr == AtrCall /\ UNCHANGED <<retryVars, startVars, sysVars, unitVars>>

AtrOnly == InitAtr /\ RetryIdle /\ StartIdle /\ SysIdle /\ UnitIdle

SpecAtr == AtrOnly /\ [][NextAtr]_vars

NextStart ==
    \/ start_fetch_raises /\ UNCHANGED <<retryVars, atrVars, sysVars, unitVars>>
    \/ start_fetch_exhausted /\ UNCHANGED <<retryVars, atrVars, sysVars, unitVars>>
    \/ start_fetch_returns /\ UNCHANGED <<retryVars, atrVars, sysVars, unitVars>>
    \/ start_indicators /\ UNCHANGED <<retryVars, atrVars, sysVars, unitVars>>
    \/ start_grid /\ UNCHANGED <<retryVars, atrVars, sysVars, unitVars>>
    \/ start_place_returns /\ UNCHANGED <<retryVars, atrVars, sysVars, unitVars>>
    \/ start_place_raises /\ UNCHANGED <<retryVars, atrVars, sysVars, unitVars>>
    \/ start_save /\ UNCHANGED <<retryVars, atrVars, sysVars, unitVars>>

StartOnly == InitStart /\ RetryIdle /\ AtrIdle /\ SysIdle /\ UnitIdle

SpecStart == StartOnly /\ [][NextStart]_vars

Others == <<retryVars, atrVars, startVars, unitVars>>

Next ==
    \/ \E instId \in Coins \cup {"None"}, best \in Coins \cup {"None"} :
         start_strategy_api(instId, best) /\ UNCHANGED Others
    \/ api_start_timers /\ UNCHANGED Others
    \/ \E instId \in Coins \cup {"None"} : stop_strategy_api(instId) /\ UNCHANGED Others
    \/ api_stop_timers /\ UNCHANGED Others
    \/ \E t \in Threads : start_strategy_compute(t) /\ UNCHANGED Others
    \/ \E t \in Threads : place_grid_orders_returns(t) /\ UNCHANGED Others
    \/ \E t \in Threads : place_grid_orders_raises(t) /\ UNCHANGED Others
    \/ \E t \in Threads : start_strategy_save(t) /\ UNCHANGED Others
    \/ \E t \in Threads : stop_strategy_load(t) /\ UNCHANGED Others
    \/ \E t \in Threads : cancel_orders_returns(t) /\ UNCHANGED Others
    \/ \E t \in Threads : cancel_orders_raises(t) /\ UNCHANGED Others
    \/ \E t \in Threads : stop_strategy_save(t) /\ UNCHANGED Others
    \/ \E task \in Tasks : timer_fires(task) /\ UNCHANGED Others
    \/ \E t \in TimerThreads : reschedule(t) /\ UNCHANGED Others
    \/ \E t \in TimerThreads : global_check_begin(t) /\ UNCHANGED Others
    \/ \E t \in TimerThreads : global_check_pnl(t) /\ UNCHANGED Others
    \/ \E t \in TimerThreads : global_check_switch(t) /\ UNCHANGED Others
    \/ \E t \in TimerThreads : coin_monitor_begin(t) /\ UNCHANGED Others
    \/ \E t \in TimerThreads : coin_monitor_select(t) /\ UNCHANGED Others
    \/ \E t \in TimerThreads : coin_monitor_switch(t) /\ UNCHANGED Others
    \/ \E t \in TimerThreads : daily_report_task(t) /\ UNCHANGED Others

ServiceOnly == Init /\ RetryIdle /\ AtrIdle /\ StartIdle /\ UnitIdle

Spec == ServiceOnly /\ [][Next]_vars

\* new entries only: POST /start_strategy and the coin switch of coin_monitor_task,
\* with the trades that close meanwhile
NextEntry ==
    \/ \E lost \in TradeLosses : trade_closed(lost) /\ UNCHANGED Others
    \/ \E instId \in Coins \cup {"None"}, best \in Coins \cup {"None"} :
         start_strategy_api(instId, best) /\ UNCHANGED Others
    \/ api_start_timers /\ UNCHANGED Others
    \/ \E t \in Threads : start_strategy_compute(t) /\ UNCHANGED Others
    \/ \E t \in Threads : place_grid_orders_returns(t) /\ UNCHANGED Others
    \/ \E t \in Threads : place_grid_orders_raises(t) /\ UNCHANGED Others
    \/ \E t \in Threads : start_strategy_save(t) /\ UNCHANGED Others
    \/ \E t \in Threads : stop_strategy_load(t) /\ UNCHANGED Others
    \/ \E t \in Threads : cancel_orders_returns(t) /\ UNCHANGED Others
    \/ \E t \in Threads : cancel_orders_raises(t) /\ UNCHANGED Others
    \/ \E t \in Threads : stop_strategy_save(t) /\ UNCHANGED Others
    \/ timer_fires("coin_monitor_timer") /\ UNCHANGED Others
    \/ \E t \in TimerThreads : reschedule(t) /\ UNCHANGED Others
    \/ \E t \in TimerThreads : coin_monitor_begin(t) /\ UNCHANGED Others
    \/ \E t \in TimerThreads : coin_monitor_select(t) /\ UNCHANGED Others
    \/ \E t \in TimerThreads : coin_monitor_switch(t) /\ UNCHANGED Others

SpecEntry == ServiceOnly /\ [][NextEntry]_vars

NextOrders ==
    \/ place_post_accepted /\ UNCHANGED NotOrd
    \/ place_post_rejected /\ UNCHANGED NotOrd
    \/ place_returns /\ UNCHANGED NotOrd
    \/ place_exhausted /\ UNCHANGED NotOrd
    \/ orders_saved /\ UNCHANGED NotOrd
    \/ stop_loads /\ UNCHANGED NotOrd
    \/ cancel_post_accepted /\ UNCHANGED NotOrd
    \/ cancel_post_rejected /\ UNCHANGED NotOrd
    \/ cancel_returns /\ UNCHANGED NotOrd
    \/ cancel_exhausted /\ UNCHANGED NotOrd
    \/ stop_saves /\ UNCHANGED NotOrd

OrdersOnly ==
    InitOrders /\ RetryIdle /\ AtrIdle /\ StartIdle /\ SysIdle /\ EnvIdle /\
    SigIdle /\ MacdIdle /\ ResIdle /\ CndIdle /\ AdjIdle /\ PfIdle /\
    SelIdle /\ BtIdle

SpecOrders == OrdersOnly /\ [][NextOrders]_vars

NextEnv ==
    \/ okx_call_raises /\ UNCHANGED NotEnv
    \/ okx_call_returns /\ UNCHANGED NotEnv
    \/ okx_retry_exhausted /\ UNCHANGED NotEnv

EnvOnly ==
    InitEnv /\ RetryIdle /\ AtrIdle /\ StartIdle /\ SysIdle /\ OrdIdle /\
    SigIdle /\ MacdIdle /\ ResIdle /\ CndIdle /\ AdjIdle /\ PfIdle /\
    SelIdle /\ BtIdle

SpecEnv == EnvOnly /\ [][NextEnv]_vars

NextSignal == signal_call /\ UNCHANGED NotSig

SignalOnly ==
    InitSignal /\ RetryIdle /\ AtrIdle /\ StartIdle /\ SysIdle /\ OrdIdle /\
    EnvIdle /\ MacdIdle /\ ResIdle /\ CndIdle /\ AdjIdle /\ PfIdle /\
    SelIdle /\ BtIdle

SpecSignal == SignalOnly /\ [][NextSignal]_vars

NextMacd == macd_call /\ UNCHANGED NotMacd

MacdOnly ==
    InitMacd /\ RetryIdle /\ AtrIdle /\ StartIdle /\ SysIdle /\ OrdIdle /\
    EnvIdle /\ SigIdle /\ ResIdle /\ CndIdle /\ AdjIdle /\ PfIdle /\
    SelIdle /\ BtIdle

SpecMacd == MacdOnly /\ [][NextMacd]_vars

NextResonance ==
    \/ resonance_fetch_empty /\ UNCHANGED NotRes
    \/ resonance_fetch_signal /\ UNCHANGED NotRes
    \/ resonance_judge /\ UNCHANGED NotRes
    \/ resonance_return /\ UNCHANGED NotRes

ResonanceOnly ==
    InitResonance /\ RetryIdle /\ AtrIdle /\ StartIdle /\ SysIdle /\
    OrdIdle /\ EnvIdle /\ SigIdle /\ MacdIdle /\ CndIdle /\ AdjIdle /\
    PfIdle /\ SelIdle /\ BtIdle

SpecResonance == ResonanceOnly /\ [][NextResonance]_vars

NextCandles ==
    \/ fetch_candles_returns /\ UNCHANGED NotCnd
    \/ fetch_candles_raises /\ UNCHANGED NotCnd
    \/ fetch_okx_candles_returns /\ UNCHANGED NotCnd
    \/ fetch_okx_candles_fails /\ UNCHANGED NotCnd

CandlesOnly ==
    InitCandles /\ RetryIdle /\ AtrIdle /\ StartIdle /\ SysIdle /\ OrdIdle /\
    EnvIdle /\ SigIdle /\ MacdIdle /\ ResIdle /\ AdjIdle /\ PfIdle /\
    SelIdle /\ BtIdle

SpecCandles == CandlesOnly /\ [][NextCandles]_vars

NextAdjust ==
    \/ adjust_copy /\ UNCHANGED NotAdj
    \/ adjust_rsi /\ UNCHANGED NotAdj
    \/ adjust_macd /\ UNCHANGED NotAdj
    \/ adjust_trend_return /\ UNCHANGED NotAdj

AdjustOnly ==
    InitAdjust /\ RetryIdle /\ AtrIdle /\ StartIdle /\ SysIdle /\ OrdIdle /\
    EnvIdle /\ SigIdle /\ MacdIdle /\ ResIdle /\ CndIdle /\ PfIdle /\
    SelIdle /\ BtIdle

SpecAdjust == AdjustOnly /\ [][NextAdjust]_vars

NextFile ==
    \/ \E t \in PfThreads : persist_load(t) /\ UNCHANGED NotPf
    \/ \E t \in PfThreads : persist_dump(t) /\ UNCHANGED NotPf

FileOnly ==
    InitFile /\ RetryIdle /\ AtrIdle /\ StartIdle /\ SysIdle /\ OrdIdle /\
    EnvIdle /\ SigIdle /\ MacdIdle /\ ResIdle /\ CndIdle /\ AdjIdle /\
    SelIdle /\ BtIdle

SpecFile == FileOnly /\ [][NextFile]_vars

NextSelect ==
    \/ select_try_coin /\ UNCHANGED NotSel
    \/ select_return /\ UNCHANGED NotSel

SelectOnly ==
    InitSelect /\ RetryIdle /\ AtrIdle /\ StartIdle /\ SysIdle /\ OrdIdle /\
    EnvIdle /\ SigIdle /\ MacdIdle /\ ResIdle /\ CndIdle /\ AdjIdle /\
    PfIdle /\ BtIdle

SpecSelect == SelectOnly /\ [][NextSelect]_vars

NextBacktest ==
    \/ backtest_candle /\ UNCHANGED NotBt
    \/ backtest_returns /\ UNCHANGED NotBt

BacktestOnly ==
    InitBacktest /\ RetryIdle /\ AtrIdle /\ StartIdle /\ SysIdle /\
    OrdIdle /\ EnvIdle /\ SigIdle /\ MacdIdle /\ ResIdle /\ CndIdle /\
    AdjIdle /\ PfIdle /\ SelIdle

SpecBacktest == BacktestOnly /\ [][NextBacktest]_vars

----------------------------------------------------------------------------
(* C7: for any ATR period P and any candle list with fewer than P+1        *)
(* candles (a list of exactly P candles included), calculate_atr signals   *)
(* an insufficient-data error and returns no numeric ATR value.            *)
C7_AtrShortHistoryRejected ==
    (atr_result.err # "pending" /\ Len(atr_candles) < atr_period + 1)
        => atr_result.err = "insufficient"

(* C8: a function that raises on its first k < N calls and then returns v  *)
(* is called exactly k+1 times, the wrapper sleeps exactly k times (D      *)
(* seconds each) and returns v.                                            *)
C8_RetryThenSuccess ==
    (outcome \in {"returned", "raised"} /\ failures < retry_times)
        => /\ outcome = "returned"
           /\ retval = "v"
           /\ calls = failures + 1
           /\ sleeps = failures
           /\ slept = failures * retry_delay

C8_Witness ==
    outcome = "returned" /\ failures = 2 /\ retry_times = 3 /\ sleeps = 2

(* C9: a function that raises on every call is called exactly N times, the *)
(* wrapper sleeps only between consecutive attempts (N-1 sleeps, none      *)
(* after the last attempt) and then raises.                                *)
C9_RetryExhaustedSleepsBetween ==
    (outcome \in {"returned", "raised"} /\ failures >= retry_times /\ retry_times >= 1)
        => /\ outcome = "raised"
           /\ calls = retry_times
           /\ sleeps = retry_times - 1


----------------------------------------------------------------------------
(* Claims about one call of start_strategy (SpecStart) *)

StrictlyDecreasing(levels) ==
    \A k \in 1..(Len(levels) - 1) : RLt(levels[k + 1], levels[k])

StrictlyIncreasing(levels) ==
    \A k \in 1..(Len(levels) - 1) : RLt(levels[k], levels[k + 1])

\* start_strategy has computed the lists it hands to place_grid_orders
GridReady == start_pc \in {"place", "save", "done"}

\* start_strategy has built buy_levels and sell_levels (lines 332-335)
LevelsBuilt == local.grid_levels > 0

\* x is a whole number of ticks within half a tick of y
NearestTick(x, y) == RIsInt(x) /\ RLe(RAbs(RSub(x, y)), <<1, 2>>)

\* (coin_funds * risk_ratio) / (grid_spacing * leverage), before max/min/round
UnclampedVolume ==
    RDiv(RMul(local.coin_funds, risk_params.risk_ratio),
         RMul(local.grid_spacing, local.leverage))

(* C2: the buy and sell price lists handed to place_grid_orders (after     *)
(* adjust_grid_by_factors) are strictly decreasing and strictly increasing *)
(* with no level repeated, for every RSI, MACD cross and trend, given      *)
(* positive grid spacing.                                                  *)
C2_AdjustedLevelsStrictlyMonotone ==
    (GridReady /\ RLt(R(0), local.grid_spacing))
        => /\ StrictlyDecreasing(local.adjusted_buy)
           /\ StrictlyIncreasing(local.adjusted_sell)

(* C3 as claimed: for base price p, spacing s > 0 and level count N there  *)
(* are exactly N buy levels p - s*i and N sell levels p + s*i, i = 1..N,   *)
(* the i-th buy and sell level equidistant from p, buys below p and sells  *)
(* above p.                                                                *)
C3_LevelsExactlyOffsets ==
    (LevelsBuilt /\ RLt(R(0), local.grid_spacing))
        => /\ Len(local.buy_levels) = local.grid_levels
           /\ Len(local.sell_levels) = local.grid_levels
           /\ \A i \in 1..local.grid_levels :
                LET off == RMul(local.grid_spacing, R(i))
                IN  /\ local.buy_levels[i] = RSub(local.current_price, off)
                    /\ local.sell_levels[i] = RAdd(local.current_price, off)
                    /\ RSub(local.current_price, local.buy_levels[i])
                           = RSub(local.sell_levels[i], local.current_price)
                    /\ RLt(local.buy_levels[i], local.current_price)
                    /\ RLt(local.current_price, local.sell_levels[i])

(* C3 amended: there are exactly N buy and N sell levels; the i-th is      *)
(* p - s*i (p + s*i) rounded to 4 decimals, so a whole number of ticks     *)
(* within half a tick of it; when p and s are whole numbers of ticks the   *)
(* levels are exactly p - s*i and p + s*i, equidistant from p, buys below  *)
(* p and sells above p.                                                    *)
C3_LevelsRoundedOffsets ==
    (LevelsBuilt /\ RLt(R(0), local.grid_spacing))
        => /\ Len(local.buy_levels) = local.grid_levels
           /\ Len(local.sell_levels) = local.grid_levels
           /\ \A i \in 1..local.grid_levels :
                LET off == RMul(local.grid_spacing, R(i))
                    b == local.buy_levels[i]
                    a == local.sell_levels[i]
                IN  /\ NearestTick(b, RSub(local.current_price, off))
                    /\ NearestTick(a, RAdd(local.current_price, off))
                    /\ (RIsInt(local.current_price) /\ RIsInt(local.grid_spacing))
                         => /\ b = RSub(local.current_price, off)
                            /\ a = RAdd(local.current_price, off)
                            /\ RSub(local.current_price, b) = RSub(a, local.current_price)
                            /\ RLt(b, local.current_price)
                            /\ RLt(local.current_price, a)

\* three levels built from a price and a spacing that are not whole ticks
C3_Witness ==
    /\ LevelsBuilt
    /\ local.grid_levels = 3
    /\ ~RIsInt(local.current_price)
    /\ ~RIsInt(local.grid_spacing)
    /\ RLt(R(0), local.grid_spacing)

(* C4 as claimed: the submitted order volume is funds * risk_ratio /       *)
(* (spacing * leverage) clamped into [min_order_volume, max_order_volume]: *)
(* never below the minimum, never above the maximum, and the unclamped     *)
(* value itself when that lies inside the interval.                        *)
C4_VolumeClampedUnchanged ==
    GridReady
        => /\ RLe(risk_params.min_order_volume, local.order_volume)
           /\ RLe(local.order_volume, risk_params.max_order_volume)
           /\ (/\ RLe(risk_params.min_order_volume, UnclampedVolume)
               /\ RLe(UnclampedVolume, risk_params.max_order_volume))
                 => local.order_volume = UnclampedVolume

(* C4 amended: the submitted order volume is the clamped value rounded to  *)
(* 4 decimals: never below min_order_volume, never above max_order_volume  *)
(* (both whole multiples of 0.0001), the minimum (maximum) when the        *)
(* unclamped value is below (above) the interval, and the unclamped value  *)
(* rounded to 4 decimals when it lies inside; every submitted order        *)
(* carries that volume.                                                    *)
C4_VolumeClampedRounded ==
    GridReady
        => /\ RLe(risk_params.min_order_volume, local.order_volume)
           /\ RLe(local.order_volume, risk_params.max_order_volume)
           /\ RLt(UnclampedVolume, risk_params.min_order_volume)
                => local.order_volume = risk_params.min_order_volume
           /\ RLt(risk_params.max_order_volume, UnclampedVolume)
                => local.order_volume = risk_params.max_order_volume
           /\ (/\ RLe(risk_params.min_order_volume, UnclampedVolume)
               /\ RLe(UnclampedVolume, risk_params.max_order_volume))
                 => NearestTick(local.order_volume, UnclampedVolume)
           /\ \A k \in 1..Len(exchange_orders) :
                exchange_orders[k].sz = local.order_volume

\* orders went out with a volume that was raised to the minimum
C4_Witness ==
    /\ start_pc = "done"
    /\ Len(exchange_orders) > 0
    /\ RLt(UnclampedVolume, risk_params.min_order_volume)
    /\ exchange_orders[1].sz = risk_params.min_order_volume

(* C5: if the ATR computed in start_strategy is zero (so the grid spacing  *)
(* is zero), start_strategy fails with an insufficient-data error and      *)
(* submits no order to the exchange.                                       *)
C5_ZeroAtrIsInsufficientData ==
    (/\ indicator_calls > 0
     /\ calculate_atr(candles, strategy_params.atr_period) = [err |-> "none", val |-> R(0)]
     /\ start_pc \in {"place", "save", "done", "failed"})
        => /\ start_pc = "failed"
           /\ start_err = "insufficient"
           /\ exchange_orders = <<>>

(* C6: when the ATR, RSI, MACD or trend computation raises an              *)
(* insufficient-history error, it is raised on the first attempt with no   *)
(* retry and no retry delay, place_grid_orders is never called and no coin *)
(* state is saved.                                                         *)
C6_InsufficientHistoryFailsAtOnce ==
    start_err = "insufficient"
        => /\ start_pc = "failed"
           /\ indicator_calls = 1
           /\ start_sleeps = fetch_i
           /\ exchange_orders = <<>>
           /\ local.order_ids = <<>>
           /\ saved_state = NoState

\* 19 candles: ATR, RSI and MACD have enough history, judge_trend has not
C6_Witness ==
    start_pc = "failed" /\ start_err = "insufficient" /\ Len(candles) = 19

----------------------------------------------------------------------------
(* Claims about the running service (Spec, SpecEntry) *)

\* the thread has a place_grid_orders or cancel_orders call under way
OrderOperationInProgress(t) == thr[t].pc \in {"place_grid_orders", "cancel_orders"}

\* the thread's start_strategy goes on to call place_grid_orders in this step
SubmitsGridOrders(t) ==
    thr[t].pc = "start_strategy" /\ thr'[t].pc = "place_grid_orders"

(* C1: no grid order is submitted for a new entry (start_strategy reached  *)
(* from POST /start_strategy or from a coin switch) in a state where       *)
(* tradeCountToday >= dailyTradeLimit, or consecutiveLossCount >=          *)
(* maxConsecutiveLoss, or dailyLossFraction >= maxDailyLoss.               *)
C1_NoEntryWhenRiskBreached ==
    [][(\E t \in Threads : SubmitsGridOrders(t)) => ~RiskBreached(risk_state)]_vars

(* C10: at no time are two order-changing exchange operations in progress  *)
(* at once: no two executions of place_grid_orders (start_strategy) or     *)
(* cancel_orders (stop_strategy) overlap, across the API handlers,         *)
(* global_check_task and coin_monitor_task.                                *)
C10_NoOverlappingOrderOperations ==
    Cardinality({t \in Threads : OrderOperationInProgress(t)}) <= 1


----------------------------------------------------------------------------
\* the batches of the posts to one path, joined in the order they were sent
RECURSIVE JoinBatches(_, _)
JoinBatches(posts, path) ==
    IF posts = <<>> THEN <<>>
    ELSE (IF Head(posts).path = path THEN Head(posts).batch ELSE <<>>)
         \o JoinBatches(Tail(posts), path)

NoPostFailed == \A k \in DOMAIN ord_posts : ord_posts[k].ok

(* C11: place_grid_orders and cancel_orders send consecutive batches of at *)
(* most 20, one after another; when no post fails every order (the buy     *)
(* levels, then the sell levels) is sent in exactly one batch and          *)
(* place_grid_orders returns the ordIds of all batches in the order of     *)
(* submission; every saved id is sent in exactly one cancel batch.         *)
C11_ConsecutiveBatchesOfTwenty ==
    LET orders == PlaceOrders(ord_levels.buy, ord_levels.sell)
    IN  /\ \A k \in DOMAIN ord_posts : Len(ord_posts[k].batch) \in 1..BatchSize
        /\ (ord_pc = "save_coin_state" /\ NoPostFailed) =>
              /\ JoinBatches(ord_posts, "order") = orders
              /\ Len(ord_ids) = Len(orders)
              /\ Len(ord_book) = Len(orders)
              /\ \A k \in DOMAIN orders :
                    ord_book[k].ordId = ord_ids[k] /\ ord_book[k].order = orders[k]
        /\ (ord_pc = "stop_save" /\ NoPostFailed) =>
              /\ JoinBatches(ord_posts, "cancel-batch-orders") = ord_saved
              /\ \A k \in DOMAIN ord_book : ord_book[k].cancel_sent

\* 41 orders went out in three batches and their ids came back in three cancel batches
C11_Witness ==
    /\ ord_pc = "stop_save"
    /\ NoPostFailed
    /\ Len(ord_saved) > 2 * BatchSize
    /\ Len(ord_posts) = 6

(* C12: every order the exchange accepted during a start_strategy call has *)
(* its id in the saved order_ids once the call is over, and after a        *)
(* stop_strategy that succeeded a cancel has been sent for every one of    *)
(* them, whatever batches failed and were retried.                         *)
C12_AcceptedOrdersAreRecorded ==
    /\ ord_pc \in {"started", "start_failed"} =>
          \A k \in DOMAIN ord_book :
             \E j \in DOMAIN ord_saved : ord_saved[j] = ord_book[k].ordId
    /\ ord_pc = "stopped" => \A k \in DOMAIN ord_book : ord_book[k].cancel_sent

----------------------------------------------------------------------------
\* the step in which start_strategy, called by POST /start_strategy, ends in its
\* except clause: it was before save_coin_state and is back in the handler
StartFailsInRequest ==
    /\ thr[0].ret = "api_start_timers"
    /\ thr[0].pc \in {"start_strategy", "place_grid_orders"}
    /\ thr'[0].pc = "api_start_timers"

(* C13: whenever start_strategy fails inside POST /start_strategy (candle  *)
(* fetch, indicator or order placement error), the request is answered     *)
(* with HTTP 400 and not with a success response.                          *)
C13_StartFailureAnswers400 ==
    [][StartFailsInRequest => api_resp' = "400"]_vars

\* the step in which a request is answered with HTTP 400
Answers400 == api_resp # "400" /\ api_resp' = "400"

(* C20: a POST /start_strategy or POST /stop_strategy that answers 400     *)
(* leaves the service as it was (is_running, the Timers) and, for start    *)
(* while running and stop while not running, calls the exchange not at     *)
(* all; a start that fails part-way leaves is_running false.               *)
C20_RejectedRequestChangesNothing ==
    [][/\ Answers400 =>
            UNCHANGED <<GLOBAL_STATE, orphan_timers, thr, strategy_file, exchange_open,
                        next_ord>>
       /\ StartFailsInRequest => ~GLOBAL_STATE'.is_running]_vars

----------------------------------------------------------------------------
(* C14: an env string other than the two valid ones, passed to any okx_api *)
(* call, is reported at once as a validation error: the wrapped function   *)
(* is attempted exactly once, it is not retried and no retry delay is      *)
(* slept.                                                                  *)
C14_InvalidEnvFailsAtOnce ==
    get_okx_domain(env_arg) = "ValueError" =>
        /\ env_calls <= 1
        /\ env_slept = 0
        /\ env_calls = 1 => env_outcome = "raised"

\* the crossover of two lines at position i: "buy" when macd_line goes from
\* below signal_line to above it, "sell" when from above to below, else "hold"
CrossAt(macd_line, signal_line, i) ==
    IF ScLess(signal_line[i], macd_line[i]) /\ ScLess(macd_line[i - 1], signal_line[i - 1])
    THEN "buy"
    ELSE IF ScLess(macd_line[i], signal_line[i])
            /\ ScLess(signal_line[i - 1], macd_line[i - 1])
    THEN "sell"
    ELSE "hold"

\* the positions at which the lines cross
Crossovers(macd_line, signal_line) ==
    {i \in 2..Len(macd_line) : CrossAt(macd_line, signal_line, i) # "hold"}

\* C15: get_single_timeframe_signal answers buy, sell or hold; hold below 30
\* candles; from 30 candles on, buy or sell exactly when the MACD line crosses
\* the signal line at the last candle; and when the lines of the whole series
\* cross at one position k only, the prefix ending at k yields that buy or sell
\* and every other prefix yields hold.
C15_SingleCrossoverIsSignalledAtK ==
    sig_n >= 1 =>
        LET prefix == DefaultMacd(SubSeq(sig_candles, 1, sig_n))
            whole == DefaultMacd(sig_candles)
            ks == Crossovers(whole.macd_line, whole.signal_line)
        IN  /\ sig_out \in {"buy", "sell", "hold"}
            /\ sig_n < 30 => sig_out = "hold"
            /\ sig_n >= 30 => sig_out = CrossAt(prefix.macd_line, prefix.signal_line, sig_n)
            /\ \A k \in ks :
                   ks = {k} =>
                       sig_out = IF sig_n = k
                                 THEN CrossAt(whole.macd_line, whole.signal_line, k)
                                 ELSE "hold"


\* max(fastperiod, slowperiod, signalperiod) of the call under check
MacdMaxPeriod ==
    CHOOSE p \in {macd_periods.fast, macd_periods.slow, macd_periods.signal} :
        \A q \in {macd_periods.fast, macd_periods.slow, macd_periods.signal} : q <= p

\* C19: calculate_macd returns a MACD line and a signal line of the same
\* length; both are non-empty when the close series has at least
\* max(fast, slow, signal) + 1 points, and both are empty otherwise.
C19_MacdLinesAligned ==
    macd_out.state = "returned" =>
        LET macd_line == macd_out.lines.macd_line
            signal_line == macd_out.lines.signal_line
        IN  /\ Len(macd_line) = Len(signal_line)
            /\ Len(macd_closes) >= MacdMaxPeriod + 1
                   => macd_line # <<>> /\ signal_line # <<>>
            /\ Len(macd_closes) < MacdMaxPeriod + 1
                   => macd_line = <<>> /\ signal_line = <<>>

\* a series of exactly max + 1 points has come back with its two lines
C19_Witness ==
    /\ macd_out.state = "returned"
    /\ Len(macd_closes) = MacdMaxPeriod + 1
    /\ macd_periods.fast < macd_periods.slow
    /\ Len(macd_out.lines.macd_line) = Len(macd_closes)
    /\ Len(macd_out.lines.signal_line) = Len(macd_closes)


\* the signal the i-th timeframe's answer carries: hold when no candles came
TimeframeSignalOf(i) ==
    IF fetch_okx_candles_of(res_replies[i]) = <<>> THEN "hold"
    ELSE get_single_timeframe_signal(fetch_okx_candles_of(res_replies[i]))

\* C16: the multi-timeframe signal is buy iff every configured timeframe's
\* signal is buy, sell iff every one is sell, and hold otherwise; a timeframe
\* whose candles could not be fetched counts as hold and so forces hold.
C16_ResonanceNeedsEveryTimeframe ==
    res_out.state \in {"judged", "returned"} =>
        LET multi_signal == res_out.multiTimeframeSignal
            tfs == 1..Len(TIMEFRAMES)
        IN  /\ multi_signal \in {"buy", "sell", "hold"}
            /\ multi_signal = "buy" <=> \A i \in tfs : TimeframeSignalOf(i) = "buy"
            /\ multi_signal = "sell" <=> \A i \in tfs : TimeframeSignalOf(i) = "sell"
            /\ \A i \in tfs :
                   res_replies[i] = "error" =>
                       /\ res_signals[TIMEFRAMES[i]] = "hold"
                       /\ multi_signal = "hold"

\* 15m buy, 1h buy, 4h sell has been judged hold
C16_Witness ==
    /\ res_out.state = "returned"
    /\ res_signals["15m"] = "buy" /\ res_signals["1h"] = "buy" /\ res_signals["4h"] = "sell"
    /\ res_out.multiTimeframeSignal = "hold"


\* the timestamps of the returned candles, in the order of the list, as
\* rationals: "timestamp" of fetch_candles, "ts" of fetch_okx_candles
ReturnedTimestamps ==
    [i \in 1..Len(cnd_out.candles) |->
        IF cnd_fn = "fetch_candles" THEN cnd_out.candles[i].timestamp
        ELSE R(cnd_out.candles[i].ts)]

\* the list is in ascending timestamp order and its last element is no older
\* than any other
CandlesAscending ==
    LET ts == ReturnedTimestamps
    IN  /\ \A i \in 1..Len(ts) - 1 : RLt(ts[i], ts[i + 1])
        /\ \A i \in 1..Len(ts) : RLe(ts[i], ts[Len(ts)])

\* C17: the list returned by fetch_candles and by fetch_okx_candles
\* is in ascending timestamp order, the last element the most recent candle,
\* for every order in which the response lists the rows.
C17_AscendingForEveryRowOrder ==
    cnd_out.state = "returned" => CandlesAscending


\* C18: adjust_grid_by_factors does not mutate the lists it is given: at
\* every point of the call, and after it, the two argument lists hold the
\* values they held when it began, and the lists returned are other objects
\* than the arguments, holding the adjusted plan, for every RSI, MACD and
\* trend input.
C18_ArgumentListsUntouched ==
    adj_pc # "idle" =>
        /\ adj_heap[adj_args.buy_levels] = adj_given.buy
        /\ adj_heap[adj_args.sell_levels] = adj_given.sell
        /\ adj_pc = "returned" =>
               LET plan == adjust_grid_by_factors(adj_given.buy, adj_given.sell,
                                                  adj_args.rsi, adj_args.macd,
                                                  adj_args.trend)
               IN  /\ {adj_ret[1], adj_ret[2]}
                          \cap {adj_args.buy_levels, adj_args.sell_levels} = {}
                   /\ adj_ret[1] # adj_ret[2]
                   /\ plan.err = "none"
                   /\ adj_heap[adj_ret[1]] = plan.buy
                   /\ adj_heap[adj_ret[2]] = plan.sell

\* a call with an overbought RSI and a death cross has returned a sell list
\* that differs from the one given
C18_Witness ==
    /\ adj_pc = "returned"
    /\ RLt(R(70), adj_args.rsi)
    /\ adj_args.macd.death_cross /\ ~adj_args.macd.golden_cross
    /\ adj_args.trend = "sideways"
    /\ Len(adj_given.sell) = MaxAdjustLevels
    /\ adj_heap[adj_ret[2]] # adj_given.sell
    /\ adj_heap[adj_args.sell_levels] = adj_given.sell


----------------------------------------------------------------------------
\* the latest request was a POST /stop_strategy that answered success
StopSucceeded == api_resp = "200" /\ ~GLOBAL_STATE.is_running

\* the latest request was a POST /start_strategy that answered success
StartSucceeded == api_resp = "200" /\ GLOBAL_STATE.is_running

\* C21: after POST /stop_strategy has returned success no Timer of any task is
\* still waiting to fire, whatever callbacks were running during the stop;
\* and after a start that follows, each task has at most one Timer waiting or
\* callback running.
C21_StopLeavesNoTimer ==
    /\ StopSucceeded => \A task \in Tasks : WaitingTimers(task) = 0
    /\ StartSucceeded =>
           \A task \in Tasks : WaitingTimers(task) + RunningTimers(task) <= 1


\* C22: within one start_strategy call each grid price level is placed at the
\* exchange at most once: no two orders the exchange has accepted are for the
\* same side and price, even when a later batch fails and the wrapper runs
\* place_grid_orders again.
C22_EachLevelPlacedOnce ==
    \A j, k \in DOMAIN ord_book :
        ord_book[j].order = ord_book[k].order => j = k


\* the instruments whose persisted coin state says running and lists orders
PersistedRunning ==
    {c \in Coins : /\ strategy_file.coin_states[c].is_running
                   /\ strategy_file.coin_states[c].order_ids # <<>>}

\* C23: at any time at most one instrument has a persisted coin state with
\* is_running true and a non-empty order_ids list, and after POST
\* /stop_strategy has returned success no instrument has, for every sequence
\* of starts, stops with or without an instId and switches of the coin, a
\* failing cancel included.
C23_OneRunningCoinNoneAfterStop ==
    /\ Cardinality(PersistedRunning) <= 1
    /\ StopSucceeded => PersistedRunning = {}


\* the documents the calls of the threads in S leave when they run one after
\* another, in any order, on the document file
RECURSIVE SerialResults(_, _)
SerialResults(file, S) ==
    IF S = {} THEN {file}
    ELSE UNION {SerialResults(Modified(file, pf_call[t]), S \ {t}) : t \in S}

\* C24: no update of the state file is lost when save_coin_state,
\* set_current_coin and update_funds_distribution run in concurrent threads:
\* once every call has returned the file holds every update, that is, it is
\* what the calls leave when run one after another in some order.
C24_NoUpdateLost ==
    (\A t \in PfThreads : pf_pc[t] = "done")
        => pf_file \in SerialResults(pf_given, PfThreads)


\* the comparison of global_check_task lines 216 and 230 for a coin: its net
\* profit has reached the stop-loss or the take-profit threshold
ThresholdReached(instId) ==
    LET coin_state == strategy_file.coin_states[instId]
        total_pnl == RSub(coin_state.profit, coin_state.loss)
        coin_funds == GLOBAL_STATE.funds_distribution[instId]
    IN  \/ RLe(total_pnl, RSub(R(0), RMul(coin_funds, risk_params.stop_loss_rate)))
        \/ RLe(RMul(coin_funds, risk_params.take_profit_rate), total_pnl)

\* C25: when global_check_task finds the stop-loss or the take-profit
\* threshold reached, the coin is stopped (its persisted is_running is false)
\* before the task starts a strategy on the replacement coin; when neither
\* threshold is reached the task stops and starts nothing and goes on to
\* reschedule itself.
C25_StoppedBeforeReplacementStarts ==
    [][\A t \in TimerThreads :
         /\ (thr[t].pc = "global_check_switch" /\ thr'[t].pc = "start_strategy")
                => ~strategy_file.coin_states[GLOBAL_STATE.current_coin].is_running
         /\ (thr[t].pc = "global_check_pnl" /\ ~ThresholdReached(thr[t].instId))
                => thr'[t].pc \in {"global_check_pnl", "reschedule"}]_vars


\* C26: in the MACD step of adjust_grid_by_factors a golden cross adds exactly
\* one buy level, one grid step below the lowest buy level there was; a death
\* cross adds exactly one sell level, one grid step above the highest sell
\* level there was; with neither cross both lists keep their length. (Lists
\* of at least two levels, which have a grid step.)
C26_CrossAddsOneLevelBeyondTheLadder ==
    [][adj_pc = "macd" =>
         LET buy == adj_heap[adj_local.adjusted_buy]
             sell == adj_heap[adj_local.adjusted_sell]
             buy2 == adj_heap'[adj_local.adjusted_buy]
             sell2 == adj_heap'[adj_local.adjusted_sell]
         IN  /\ (adj_args.macd.golden_cross /\ Len(buy) >= 2) =>
                    /\ Len(buy2) = Len(buy) + 1 /\ sell2 = sell
                    /\ SubSeq(buy2, 1, Len(buy)) = buy
                    /\ \A k \in DOMAIN buy :
                           RLe(RAdd(buy2[Len(buy2)], RSub(buy[1], buy[2])), buy[k])
                    /\ \E k \in DOMAIN buy :
                           RAdd(buy2[Len(buy2)], RSub(buy[1], buy[2])) = buy[k]
             /\ (adj_args.macd.death_cross /\ ~adj_args.macd.golden_cross
                    /\ Len(sell) >= 2) =>
                    /\ Len(sell2) = Len(sell) + 1 /\ buy2 = buy
                    /\ SubSeq(sell2, 1, Len(sell)) = sell
                    /\ \A k \in DOMAIN sell :
                           RLe(sell[k], RSub(sell2[Len(sell2)], RSub(sell[2], sell[1])))
                    /\ \E k \in DOMAIN sell :
                           RSub(sell2[Len(sell2)], RSub(sell[2], sell[1])) = sell[k]
             /\ (~adj_args.macd.death_cross /\ ~adj_args.macd.golden_cross) =>
                    Len(buy2) = Len(buy) /\ Len(sell2) = Len(sell)]_vars


\* the sides of the orders start_strategy has submitted
SubmittedSides == {exchange_orders[k].side : k \in DOMAIN exchange_orders}

\* C27: once start_strategy has submitted its orders, with trend "up" every
\* order is a buy order and the sell ladder is empty, with trend "down" every
\* order is a sell order and the buy ladder is empty, and with trend "shock"
\* both ladders are submitted, each with at least grid_levels levels; this
\* whatever the RSI and the MACD flags were.
C27_TrendDecidesTheSides ==
    start_pc \in {"save", "done"} =>
        /\ local.trend = "up" =>
               SubmittedSides = {"buy"} /\ local.adjusted_sell = <<>>
        /\ local.trend = "down" =>
               SubmittedSides = {"sell"} /\ local.adjusted_buy = <<>>
        /\ local.trend = "shock" =>
               /\ SubmittedSides = {"buy", "sell"}
               /\ Len(local.adjusted_buy) >= local.grid_levels
               /\ Len(local.adjusted_sell) >= local.grid_levels
        /\ local.trend \in {"up", "down", "shock"}

\* an up-trend start on a MACD death cross, which adds a sell level, whose
\* orders were submitted
C27_Witness ==
    /\ start_pc = "done" /\ local.trend = "up"
    /\ local.macd.death_cross /\ ~local.macd.golden_cross
    /\ exchange_orders # <<>>


\* the coins whose requests and indicators all succeeded
SelectScored == {k \in DOMAIN sel_seen : sel_seen[k].raised = "none"}

\* the score the rule gives coin k: 5 for trend shock, 3 for a volatility
\* inside the coin's window, 2 for an RSI from 30 to 70
RuleScore(k) ==
    LET f == sel_seen[k]
        c == select_configs[k]
        lo == c.min_volatility
        hi == c.max_volatility
        inWindow == /\ lo[1] * f.volatility[2] <= f.volatility[1] * lo[2]
                    /\ f.volatility[1] * hi[2] <= hi[1] * f.volatility[2]
        rsiNormal == 30 * f.rsi[2] <= f.rsi[1] /\ f.rsi[1] <= 70 * f.rsi[2]
    IN  (IF f.trend = "shock" THEN 5 ELSE 0) + (IF inWindow THEN 3 ELSE 0)
        + (IF rsiNormal THEN 2 ELSE 0)

\* C28: select_best_coin tries every configured coin, skipping a coin whose
\* request or indicator raises, and returns the coin with the highest score,
\* the earliest in the configuration among equals, or None when no coin
\* scores 5 or more.
C28_BestCoinIsEarliestHighest ==
    sel_pc = "returned" =>
        /\ Len(sel_seen) = Len(select_configs)
        /\ IF \E k \in SelectScored : RuleScore(k) >= 5
           THEN \E k \in SelectScored :
                    /\ sel_ret = select_configs[k].instId
                    /\ \A j \in SelectScored : RuleScore(j) <= RuleScore(k)
                    /\ \A j \in SelectScored : j < k => RuleScore(j) < RuleScore(k)
           ELSE sel_ret = "None"

\* two coins tie at the highest score, 5 or more, and the earlier is returned
C28_Witness ==
    /\ sel_pc = "returned"
    /\ \E j, k \in SelectScored :
           /\ j < k /\ RuleScore(j) = RuleScore(k) /\ RuleScore(j) >= 5
           /\ \A m \in SelectScored : RuleScore(m) <= RuleScore(j)
           /\ sel_ret = select_configs[j].instId


\* thread t writes the document of its save_coin_state call in this step
SavesCoinState(t) ==
    /\ pf_pc[t] = "loaded" /\ pf_pc'[t] = "done"
    /\ pf_call[t].fn = "save_coin_state"

\* the step leaves the file unchanged outside the state of instrument instId,
\* and inside it outside the given keys
FileFrame(instId, keys) ==
    /\ pf_file'.current_coin = pf_file.current_coin
    /\ pf_file'.total_profit = pf_file.total_profit
    /\ pf_file'.total_loss = pf_file.total_loss
    /\ pf_file'.total_funds = pf_file.total_funds
    /\ pf_file'.funds_distribution = pf_file.funds_distribution
    /\ DOMAIN pf_file.coin_states \subseteq DOMAIN pf_file'.coin_states
    /\ DOMAIN pf_file'.coin_states \subseteq DOMAIN pf_file.coin_states \cup {instId}
    /\ \A c \in DOMAIN pf_file.coin_states \ {instId} :
           pf_file'.coin_states[c] = pf_file.coin_states[c]
    /\ instId \in DOMAIN pf_file.coin_states =>
           \A key \in DOMAIN pf_file.coin_states[instId] \ keys :
               /\ key \in DOMAIN pf_file'.coin_states[instId]
               /\ pf_file'.coin_states[instId][key] = pf_file.coin_states[instId][key]

\* C29: the save_coin_state of stop_strategy changes only is_running and
\* order_ids in the persisted state of the stopped instrument (profit, loss,
\* levels and leverage stay), and any save_coin_state for one instrument
\* leaves the state of every other instrument, current_coin, the profit and
\* loss totals and the funds distribution of the file as they were.
C29_SaveTouchesOnlyItsCoin ==
    [][\A t \in PfThreads :
         SavesCoinState(t) =>
             FileFrame(pf_call[t].instId, DOMAIN pf_call[t].arg)]_vars


\* the backtest closes its position as a stop-loss in this step
StopLossClose ==
    /\ Len(bt_trades') = Len(bt_trades) + 1
    /\ bt_trades'[Len(bt_trades')].type = "stop_loss"

\* C30: in backtest_strategy a position is closed as a stop-loss only when the
\* price has moved against it by at least one ATR from the entry price (a
\* long at or below entry - ATR, a short at or above entry + ATR); a position
\* is opened only when there is none; every close leaves no position; and
\* win_count never exceeds total_trades.
C30_StopLossOnlyOneAtrAgainst ==
    [][(bt_pc = "loop" /\ bt_i < Len(bt_candles)) =>
         LET current_candles == SubSeq(bt_candles, 1, bt_i + 1)
             price == R(bt_candles[bt_i + 1].close)
             atr == tool_calculate_atr(current_candles, ToolAtrPeriod)
         IN  /\ StopLossClose =>
                    IF RLt(R(0), bt_local.position)
                    THEN RLe(price, RSub(bt_local.entry_price, atr))
                    ELSE RLe(RAdd(bt_local.entry_price, atr), price)
             /\ bt_local'.total_trades # bt_local.total_trades =>
                    bt_local.position = R(0) /\ bt_local'.position # R(0)
             /\ Len(bt_trades') # Len(bt_trades) =>
                    bt_local.position # R(0) /\ bt_local'.position = R(0)
             /\ bt_local'.win_count <= bt_local'.total_trades]_vars

============================================================================
